---------------------------- MODULE Spec2Model ----------------------------
(***************************************************************************)
(* Access-recertification analytics: the assurance scorer                  *)
(* (src/src/analytics/assurance.py) and the multi-strategy clusterer with  *)
(* its consensus analysis (src/src/analytics/clustering.py).               *)
(*                                                                         *)
(* Numbers.  The code computes in binary floating point; the model         *)
(* computes the same expressions exactly, on integers:                     *)
(*   - weights and usage factors are held in tenths (0.6 -> 6),            *)
(*   - sensitivity ceilings in hundredths (0.85 -> 85),                    *)
(*   - thresholds in score points (80.0 -> 80),                            *)
(*   - a quotient is a record [num, den] with den > 0,                     *)
(*   - overall_score, which the code rounds to one decimal, in tenths of   *)
(*     a score point (79.9 -> 799).                                        *)
(* Where the exact value lies half way between two one-decimal values the  *)
(* floating-point error of the product decides which of the two round()    *)
(* returns, so the model allows both.                                      *)
(***************************************************************************)
EXTENDS Integers, Sequences, FiniteSets, TLC

VARIABLES
    scorer_config,      \* AssuranceScorer.config
    score_args,         \* arguments of the last calculate_score call
    score,              \* AssuranceScore returned by the last call
    clusterer_config,   \* MultiStrategyClusterer.config
    library_outcome,    \* what each clustering library call of the run returns
    all_assignments,    \* dict returned by run_all_strategies, in insertion order
    consensus_results,  \* dict returned by analyze_consensus (_results_cache)
    stage,              \* how far run_analysis has got
    snapshot,           \* the rows AnalyticsEngine.load_data has loaded
    lob_filter,         \* run_analysis(lob_filter=...)
    result,             \* the AnalyticsResult run_analysis returns
    prox_input,         \* weights, features and arguments of two proximity runs
    calculator,         \* per run: the PeerProximityCalculator once constructed
    run_matrix,         \* per run: the matrix of step 2
    run_clusters,       \* per run: the hierarchical ClusterAssignments of step 3
    prox_pc,            \* the run that is executing and its next step
    replay_input,       \* the snapshot two runs of run_analysis are given
    process,            \* per run: the clock and the hash order of its process
    replay,             \* per run: its step and the parts of its result so far
    database,           \* the rows of the database the shared engine loads
    engine,             \* api/main.py _engine: its snapshot and its caches
    run_log,            \* the runs of the shared engine: filter and result
    analysis,           \* what run_analysis returns to activate_campaign
    campaigns,          \* table campaigns, by id
    review_items,       \* table review_items, by id
    audit_records,      \* table audit_records, in insertion order
    weights_rows,       \* table proximity_weights, in insertion order
    response            \* the response to the last request

vars == <<scorer_config, score_args, score,
          clusterer_config, library_outcome, all_assignments, consensus_results, stage,
          snapshot, lob_filter, result,
          prox_input, calculator, run_matrix, run_clusters, prox_pc,
          replay_input, process, replay,
          database, engine, run_log,
          analysis, campaigns, review_items, audit_records, weights_rows, response>>

scorerVars == <<scorer_config, score_args, score>>
clusterVars == <<clusterer_config, library_outcome, all_assignments, consensus_results, stage>>
engineVars == <<snapshot, lob_filter, result>>
proximityVars == <<prox_input, calculator, run_matrix, run_clusters, prox_pc>>
replayVars == <<replay_input, process, replay>>
sharedVars == <<database, engine, run_log>>
apiVars == <<analysis, campaigns, review_items, audit_records, weights_rows, response>>

\* Python's None, where an Optional[int] is missing: an integer no value takes
None == -1000

-----------------------------------------------------------------------------
(* Bounds                                                                  *)

\* largest peer list handed to calculate_score
MaxPeers == 23

\* employees in one analysis run
NumEmployees == 6

\* clusters DBSCAN may find besides the noise label -1
MaxDbscanClusters == 1

\* communities Louvain may find
MaxCommunities == 2

\* employees handed to the proximity calculator
NumProxEmployees == 3

\* requests the shared engine serves
MaxRuns == 2

\* grants the analysis of a campaign's scope returns
MaxGrants == 2

\* campaigns the requests create
MaxCampaigns == 1

\* rows of table review_items
MaxReviewItems == 4

\* rows of table audit_records
MaxAuditRecords == 2

\* review_item_ids of one bulk request
MaxBulk == 2

\* rows of table proximity_weights
MaxWeightsRows == 2

-----------------------------------------------------------------------------
(* Quotients                                                               *)

Rat(n, d) == [num |-> n, den |-> d]

RatLess(a, b) == a.num * b.den < b.num * a.den

RatEq(a, b) == a.num * b.den = b.num * a.den

RatGeqInt(a, t) == a.num >= t * a.den

RECURSIVE GCD(_, _)
GCD(a, b) == IF b = 0 THEN a ELSE GCD(b, a % b)

\* a quotient in lowest terms
RatNorm(a) ==
    LET g == GCD(a.num, a.den)
    IN  IF g = 0 THEN a ELSE Rat(a.num \div g, a.den \div g)

RatAdd(a, b) == RatNorm(Rat(a.num * b.den + b.num * a.den, a.den * b.den))

\* round(x, 1) in tenths: the one-decimal values nearest to x
Round1(x) ==
    LET q == (10 * x.num) \div x.den
        r == (10 * x.num) % x.den
    IN  IF 2 * r < x.den THEN {q}
        ELSE IF 2 * r > x.den THEN {q + 1}
        ELSE {q, q + 1}

-----------------------------------------------------------------------------
(* assurance.py                                                            *)

SensitivityLevels == {"Public", "Internal", "Confidential", "Critical"}

\* SensitivityConfig defaults, in hundredths
PUBLIC == 100
INTERNAL == 85
CONFIDENTIAL == 50
CRITICAL == 0

\* SensitivityConfig.get_ceiling: getattr(self, level.upper(), self.INTERNAL)
get_ceiling(level) ==
    CASE level = "Public" -> PUBLIC
      [] level = "Internal" -> INTERNAL
      [] level = "Confidential" -> CONFIDENTIAL
      [] level = "Critical" -> CRITICAL
      [] OTHER -> INTERNAL

\* AssuranceConfig day thresholds
active_days_threshold == 30
occasional_days_threshold == 90
stale_days_threshold == 365

\* AssuranceConfig defaults: thresholds in points, weights in tenths
DefaultAssuranceConfig ==
    [high_assurance_threshold |-> 80, medium_assurance_threshold |-> 50,
     weight_typicality |-> 6, weight_usage |-> 4]

\* the configurations a scorer is constructed with
AssuranceConfigs ==
    { DefaultAssuranceConfig,
      [DefaultAssuranceConfig EXCEPT !.high_assurance_threshold = 0,
                                     !.medium_assurance_threshold = 0],
      [DefaultAssuranceConfig EXCEPT !.high_assurance_threshold = 90,
                                     !.medium_assurance_threshold = 60],
      [DefaultAssuranceConfig EXCEPT !.weight_typicality = 10,
                                     !.weight_usage = 10] }

\* UsagePattern values handed to the scorer
UsagePatterns ==
    [total_access_count : {0, 1},
     last_accessed_days_ago : {None, 0, 30, 31, 90, 91, 365, 366},
     access_count_30d : {2, 3, 9, 10}]

\* calculate_typicality: (typicality, peers_with_access, total_peers)
calculate_typicality(resource_id, peer_ids, access_by_employee) ==
    IF peer_ids = {}
    THEN [typicality |-> Rat(1, 2), peers_with |-> 0, total_peers |-> 0]
    ELSE LET total_peers == Cardinality(peer_ids)
             peers_with == Cardinality({p \in peer_ids :
                                          resource_id \in access_by_employee[p]})
         IN  [typicality |-> Rat(peers_with, total_peers),
              peers_with |-> peers_with, total_peers |-> total_peers]

\* calculate_usage_factor with the recency bounds taken as exclusive
calculate_usage_factor_Strict(usage) ==
    IF usage.total_access_count = 0 THEN [factor |-> 1, pattern |-> "dormant"]
    ELSE IF usage.last_accessed_days_ago = None
         THEN [factor |-> 1, pattern |-> "dormant"]
    ELSE IF usage.last_accessed_days_ago < active_days_threshold
         THEN IF usage.access_count_30d >= 10
                  THEN [factor |-> 10, pattern |-> "active"]
              ELSE IF usage.access_count_30d >= 3
                  THEN [factor |-> 9, pattern |-> "active"]
              ELSE [factor |-> 8, pattern |-> "active"]
    ELSE IF usage.last_accessed_days_ago < occasional_days_threshold
         THEN [factor |-> 6, pattern |-> "occasional"]
    ELSE IF usage.last_accessed_days_ago < stale_days_threshold
         THEN [factor |-> 3, pattern |-> "stale"]
    ELSE [factor |-> 1, pattern |-> "dormant"]

\* calculate_usage_factor: (usage_factor in tenths, usage_pattern)
calculate_usage_factor(usage) ==
    IF usage.total_access_count = 0 THEN [factor |-> 1, pattern |-> "dormant"]
    ELSE IF usage.last_accessed_days_ago = None
         THEN [factor |-> 1, pattern |-> "dormant"]
    ELSE IF usage.last_accessed_days_ago <= active_days_threshold
         THEN IF usage.access_count_30d >= 10
                  THEN [factor |-> 10, pattern |-> "active"]
              ELSE IF usage.access_count_30d >= 3
                  THEN [factor |-> 9, pattern |-> "active"]
              ELSE [factor |-> 8, pattern |-> "active"]
    ELSE IF usage.last_accessed_days_ago <= occasional_days_threshold
         THEN [factor |-> 6, pattern |-> "occasional"]
    ELSE IF usage.last_accessed_days_ago <= stale_days_threshold
         THEN [factor |-> 3, pattern |-> "stale"]
    ELSE [factor |-> 1, pattern |-> "dormant"]

\* raw_score = weight_typicality * typicality + weight_usage * usage_factor
RawScore(config, typicality, usage_factor) ==
    Rat(10 * config.weight_typicality * typicality.num
            + config.weight_usage * usage_factor * typicality.den,
        100 * typicality.den)

\* final_score = raw_score * sensitivity_ceiling * 100
FinalScore(raw_score, sensitivity_ceiling) ==
    Rat(raw_score.num * sensitivity_ceiling, raw_score.den)

\* Classify with > where the code has >=
Classify_Strict(config, final_score) ==
    IF final_score.num > config.high_assurance_threshold * final_score.den
        THEN [classification |-> "high_assurance", auto_eligible |-> TRUE]
    ELSE IF final_score.num > config.medium_assurance_threshold * final_score.den
        THEN [classification |-> "medium_assurance", auto_eligible |-> FALSE]
    ELSE [classification |-> "low_assurance", auto_eligible |-> FALSE]

\* Classify with the medium branch setting auto_eligible as the high branch does
Classify_MediumEligible(config, final_score) ==
    IF RatGeqInt(final_score, config.high_assurance_threshold)
        THEN [classification |-> "high_assurance", auto_eligible |-> TRUE]
    ELSE IF RatGeqInt(final_score, config.medium_assurance_threshold)
        THEN [classification |-> "medium_assurance", auto_eligible |-> TRUE]
    ELSE [classification |-> "low_assurance", auto_eligible |-> FALSE]

\* the if/elif/else on final_score in calculate_score
Classify(config, final_score) ==
    IF RatGeqInt(final_score, config.high_assurance_threshold)
        THEN [classification |-> "high_assurance", auto_eligible |-> TRUE]
    ELSE IF RatGeqInt(final_score, config.medium_assurance_threshold)
        THEN [classification |-> "medium_assurance", auto_eligible |-> FALSE]
    ELSE [classification |-> "low_assurance", auto_eligible |-> FALSE]

\* AutoEligible without the override for a ceiling of 0
AutoEligible_NoOverride(classified, sensitivity_ceiling) == classified.auto_eligible

\* "Critical sensitivity = NEVER auto-certify"
AutoEligible(classified, sensitivity_ceiling) ==
    IF sensitivity_ceiling = 0 THEN FALSE ELSE classified.auto_eligible

\* _generate_explanations, each string reduced to its category
generate_explanations(peers_with, total_peers, usage_pattern, sensitivity_ceiling, final_score, days_since_last_use) ==
    LET peer ==
            IF total_peers > 0
            THEN IF 100 * peers_with >= 80 * total_peers THEN "Common access"
                 ELSE IF 100 * peers_with >= 50 * total_peers THEN "Moderate access"
                 ELSE IF 100 * peers_with >= 20 * total_peers THEN "Uncommon access"
                 ELSE "Unusual access"
            ELSE "No peer group"
        use ==
            CASE usage_pattern = "active" -> "Active usage"
              [] usage_pattern = "occasional" -> "Occasional usage"
              [] usage_pattern = "stale" -> "Stale access"
              [] OTHER ->
                    IF days_since_last_use # None /\ days_since_last_use # 0
                    THEN "Dormant access: Not used" ELSE "Dormant access: Never used"
        sens ==
            IF sensitivity_ceiling = 0 THEN <<"Critical sensitivity">>
            ELSE IF sensitivity_ceiling < 60 THEN <<"Confidential sensitivity">>
            ELSE IF sensitivity_ceiling < 90 THEN <<"Internal sensitivity">>
            ELSE <<>>
        final ==
            IF RatGeqInt(final_score, 80) THEN "High assurance: Eligible for auto-certification"
            ELSE IF RatGeqInt(final_score, 50) THEN "Medium assurance: Review recommended"
            ELSE "Low assurance: Review required"
    IN  <<peer, use>> \o sens \o <<final>>

\* calculate_score: the AssuranceScore records the call can return
calculate_score(config, resource_id, resource_sensitivity, peer_ids, access_by_employee, usage) ==
    LET typ == calculate_typicality(resource_id, peer_ids, access_by_employee)
        use == calculate_usage_factor(usage)
        sensitivity_ceiling == get_ceiling(resource_sensitivity)
        raw_score == RawScore(config, typ.typicality, use.factor)
        final_score == FinalScore(raw_score, sensitivity_ceiling)
        classified == Classify(config, final_score)
    IN  { [overall_score |-> rounded,
           sensitivity_ceiling |-> sensitivity_ceiling,
           usage_factor |-> use.factor,
           peers_with_access |-> typ.peers_with,
           total_peers |-> typ.total_peers,
           usage_pattern |-> use.pattern,
           days_since_last_use |-> usage.last_accessed_days_ago,
           resource_sensitivity |-> resource_sensitivity,
           classification |-> classified.classification,
           auto_certify_eligible |-> AutoEligible(classified, sensitivity_ceiling),
           explanations |-> generate_explanations(
                                typ.peers_with, typ.total_peers, use.pattern,
                                sensitivity_ceiling, final_score,
                                usage.last_accessed_days_ago)]
         : rounded \in Round1(final_score) }

\* the resource a grant is scored for
TheResource == "r"

\* A peer list of n employees of whom the first k hold the resource
PeerIds(n) == 1..n
AccessByEmployee(n, k) == [p \in 1..n |-> IF p <= k THEN {TheResource} ELSE {}]

\* before calculate_score has returned
NoScore == [scored |-> FALSE]

\* the calls of calculate_score: a peer list of total_peers employees of whom
\* the first peers_with hold the resource
ScoreArgs ==
    UNION {[resource_sensitivity : SensitivityLevels \cup {"Unlisted"},
            total_peers : {n},
            peers_with : 0..n,
            usage : UsagePatterns] : n \in 0..MaxPeers}

ScorerInit ==
    /\ scorer_config \in AssuranceConfigs
    /\ score_args \in ScoreArgs
    /\ score = NoScore

\* one call of AssuranceScorer.calculate_score
CalculateScore ==
    /\ score = NoScore
    /\ score' \in calculate_score(scorer_config, TheResource, score_args.resource_sensitivity,
                                  PeerIds(score_args.total_peers),
                                  AccessByEmployee(score_args.total_peers, score_args.peers_with),
                                  score_args.usage)
    /\ UNCHANGED <<scorer_config, score_args>>

-----------------------------------------------------------------------------
(* clustering.py                                                           *)

\* list(ClusteringStrategy): the order run_all_strategies runs them in
Strategies == <<"kmeans", "hierarchical", "dbscan", "graph_community">>

\* employee_ids of the run
Employees == 1..NumEmployees

\* ClusteringConfig defaults
kmeans_max_clusters == 50
kmeans_min_cluster_size == 5

\* ClusteringConfig.consensus_threshold in tenths: the default 0.7, and 0.1
ClusteringConfigs == {[consensus_threshold |-> 7], [consensus_threshold |-> 1]}

Max(a, b) == IF a >= b THEN a ELSE b
Min(a, b) == IF a <= b THEN a ELSE b

\* The label vectors a clustering library call is taken to return: one label
\* of ids per employee, enumerated with every cluster a run of consecutive
\* employees.
Labelings(ids) ==
    {f \in [Employees -> ids] : \A i \in Employees : i + 1 \in Employees => f[i] <= f[i + 1]}

\* the dict of ClusterAssignment built from a label vector
Assignments(labels, marks_outliers) ==
    [e \in Employees |-> [cluster_id |-> labels[e],
                          is_outlier |-> marks_outliers /\ labels[e] = -1]]

\* what a strategy's call does: it returns its assignments, or it raises
Returned(assignments) == [raised |-> FALSE, assignments |-> assignments]
Failed == [raised |-> TRUE, assignments |-> <<>>]

\* cluster_kmeans: n_clusters is the auto-selected k in 2..max_k, labels are
\* 0..k-1, is_outlier=False; an exception of the library fails the strategy
cluster_kmeans ==
    LET max_k == Max(2, Min(kmeans_max_clusters, NumEmployees \div kmeans_min_cluster_size))
    IN  {Returned(Assignments(l, FALSE)) : l \in UNION {Labelings(0..(k - 1)) : k \in 2..max_k}}
        \cup {Failed}

\* cluster_hierarchical: as cluster_kmeans, with AgglomerativeClustering
cluster_hierarchical ==
    LET max_k == Max(2, Min(kmeans_max_clusters, NumEmployees \div kmeans_min_cluster_size))
    IN  {Returned(Assignments(l, FALSE)) : l \in UNION {Labelings(0..(k - 1)) : k \in 2..max_k}}
        \cup {Failed}

\* cluster_dbscan: label -1 is noise, is_outlier = (cluster_id == -1)
cluster_dbscan ==
    {Returned(Assignments(l, TRUE)) : l \in Labelings((-1)..(MaxDbscanClusters - 1))} \cup {Failed}

\* cluster_graph_community: communities are numbered 0..m-1 and cover every
\* employee; {} when networkx is missing or Louvain raises
cluster_graph_community ==
    {Returned(Assignments(l, TRUE)) :
        l \in UNION {{f \in Labelings(0..(m - 1)) : \A c \in 0..(m - 1) : \E e \in Employees : f[e] = c}
                        : m \in 1..MaxCommunities}}
    \cup {Returned(<<>>), Failed}

\* run_all_strategies storing an empty dict for a strategy that raised
run_all_strategies_KeepFailed(outcome) ==
    [i \in 1..Len(Strategies) |-> [strategy |-> Strategies[i],
                                   assignments |-> outcome[Strategies[i]].assignments]]

\* run_all_strategies: the results dict as the sequence of its items; a
\* strategy that raised is skipped
run_all_strategies(outcome) ==
    LET Succeeded(i) == ~outcome[Strategies[i]].raised
        F[i \in 0..Len(Strategies)] ==
            IF i = 0 THEN <<>>
            ELSE IF Succeeded(i)
                 THEN Append(F[i - 1], [strategy |-> Strategies[i],
                                        assignments |-> outcome[Strategies[i]].assignments])
                 ELSE F[i - 1]
    IN  F[Len(Strategies)]

\* emp_assignments: the items of all_assignments that hold emp_id
EmpAssignments(assignments_by_strategy, emp_id) ==
    LET Has(item) == emp_id \in DOMAIN item.assignments
        items == SelectSeq(assignments_by_strategy, Has)
    IN  [i \in 1..Len(items) |-> [strategy |-> items[i].strategy,
                                   assignment |-> items[i].assignments[emp_id],
                                   strategy_assignments |-> items[i].assignments]]

\* PeerSet without the other_id != emp_id test
PeerSet_WithSelf(item, emp_id) ==
    IF item.assignment.is_outlier THEN {}
    ELSE {other_id \in DOMAIN item.strategy_assignments :
            item.strategy_assignments[other_id].cluster_id = item.assignment.cluster_id}

\* the peer set one strategy gives emp_id
PeerSet(item, emp_id) ==
    IF item.assignment.is_outlier THEN {}
    ELSE {other_id \in DOMAIN item.strategy_assignments :
            /\ other_id # emp_id
            /\ item.strategy_assignments[other_id].cluster_id = item.assignment.cluster_id}

PeerSets(emp_assignments, emp_id) ==
    [i \in 1..Len(emp_assignments) |-> PeerSet(emp_assignments[i], emp_id)]

\* jaccard = intersection / union if union > 0 else 1.0
Jaccard(set_a, set_b) ==
    IF Cardinality(set_a \cup set_b) > 0
    THEN RatNorm(Rat(Cardinality(set_a \cap set_b), Cardinality(set_a \cup set_b)))
    ELSE Rat(1, 1)

\* the index pairs whose similarity is appended to pairwise_similarities
CountedPairs(peer_sets) ==
    {p \in (1..Len(peer_sets)) \X (1..Len(peer_sets)) :
        /\ p[1] < p[2]
        /\ (peer_sets[p[1]] # {} \/ peer_sets[p[2]] # {})}

RECURSIVE SumJaccard(_, _)
SumJaccard(peer_sets, pairs) ==
    IF pairs = {} THEN Rat(0, 1)
    ELSE LET p == CHOOSE q \in pairs : TRUE
         IN  RatAdd(Jaccard(peer_sets[p[1]], peer_sets[p[2]]),
                    SumJaccard(peer_sets, pairs \ {p}))

\* ConsensusScore sending a single peer set through the pairwise branch
ConsensusScore_NoSingleCase(peer_sets) ==
    LET pairs == CountedPairs(peer_sets)
        total == SumJaccard(peer_sets, pairs)
    IN  IF pairs # {}
        THEN RatNorm(Rat(total.num, total.den * Cardinality(pairs)))
        ELSE Rat(0, 1)

\* consensus_score
ConsensusScore(peer_sets) ==
    IF Len(peer_sets) >= 2
    THEN LET pairs == CountedPairs(peer_sets)
             total == SumJaccard(peer_sets, pairs)
         IN  IF pairs # {}
             THEN RatNorm(Rat(total.num, total.den * Cardinality(pairs)))
             ELSE Rat(0, 1)
    ELSE Rat(1, 1)

NonEmptySets(peer_sets) == {peer_sets[i] : i \in {j \in 1..Len(peer_sets) : peer_sets[j] # {}}}

\* consensus_peers: intersection of the non-empty peer sets
ConsensusPeers(peer_sets) ==
    IF NonEmptySets(peer_sets) = {} THEN {}
    ELSE {x \in UNION NonEmptySets(peer_sets) : \A s \in NonEmptySets(peer_sets) : x \in s}

\* all_peers: union of the non-empty peer sets
AllPeers(peer_sets) == UNION NonEmptySets(peer_sets)

OutlierVotes(emp_assignments) ==
    Cardinality({i \in 1..Len(emp_assignments) : emp_assignments[i].assignment.is_outlier})

\* ReviewDecision without its last branch
ReviewDecision_WithoutCommonPeers(config, consensus_score, outlier_votes, non_outlier_votes, consensus_peers, all_peers) ==
    IF RatLess(consensus_score, Rat(config.consensus_threshold, 10))
        THEN [needs_review |-> TRUE, reason |-> "Low consensus score"]
    ELSE IF outlier_votes > 0 /\ non_outlier_votes > 0
        THEN [needs_review |-> TRUE, reason |-> "Outlier disagreement"]
    ELSE [needs_review |-> FALSE, reason |-> None]

\* ReviewDecision with its first two branches in the other order
ReviewDecision_OutlierFirst(config, consensus_score, outlier_votes, non_outlier_votes, consensus_peers, all_peers) ==
    IF outlier_votes > 0 /\ non_outlier_votes > 0
        THEN [needs_review |-> TRUE, reason |-> "Outlier disagreement"]
    ELSE IF RatLess(consensus_score, Rat(config.consensus_threshold, 10))
        THEN [needs_review |-> TRUE, reason |-> "Low consensus score"]
    ELSE IF Cardinality(consensus_peers) = 0 /\ Cardinality(all_peers) > 0
        THEN [needs_review |-> TRUE, reason |-> "No common peers across all strategies"]
    ELSE [needs_review |-> FALSE, reason |-> None]

\* the if/elif chain that sets needs_review and reason
ReviewDecision(config, consensus_score, outlier_votes, non_outlier_votes, consensus_peers, all_peers) ==
    IF RatLess(consensus_score, Rat(config.consensus_threshold, 10))
        THEN [needs_review |-> TRUE, reason |-> "Low consensus score"]
    ELSE IF outlier_votes > 0 /\ non_outlier_votes > 0
        THEN [needs_review |-> TRUE, reason |-> "Outlier disagreement"]
    ELSE IF Cardinality(consensus_peers) = 0 /\ Cardinality(all_peers) > 0
        THEN [needs_review |-> TRUE, reason |-> "No common peers across all strategies"]
    ELSE [needs_review |-> FALSE, reason |-> None]

\* non_outlier_clusters, in the order of emp_assignments
NonOutlierClusters(emp_assignments) ==
    LET NotOutlier(item) == ~item.assignment.is_outlier
        items == SelectSeq(emp_assignments, NotOutlier)
    IN  [i \in 1..Len(items) |-> items[i].assignment.cluster_id]

CountIn(seq, x) == Cardinality({i \in 1..Len(seq) : seq[i] = x})

\* MostCommon returning the last-inserted key of maximal count
MostCommon_Last(seq) ==
    LET best == CHOOSE i \in 1..Len(seq) :
                    /\ \A j \in 1..Len(seq) : CountIn(seq, seq[j]) <= CountIn(seq, seq[i])
                    /\ \A j \in (i + 1)..Len(seq) : CountIn(seq, seq[j]) < CountIn(seq, seq[i])
    IN  seq[best]

\* Counter(seq).most_common(1)[0][0]: the first-inserted key of maximal count
MostCommon(seq) ==
    LET best == CHOOSE i \in 1..Len(seq) :
                    /\ \A j \in 1..Len(seq) : CountIn(seq, seq[j]) <= CountIn(seq, seq[i])
                    /\ \A j \in 1..(i - 1) : CountIn(seq, seq[j]) < CountIn(seq, seq[i])
    IN  seq[best]

\* the ConsensusResult of one employee
ConsensusOf(config, assignments_by_strategy, emp_id) ==
    LET emp_assignments == EmpAssignments(assignments_by_strategy, emp_id)
        total_strategies == Len(emp_assignments)
        peer_sets == PeerSets(emp_assignments, emp_id)
        consensus_score == ConsensusScore(peer_sets)
        consensus_peers == ConsensusPeers(peer_sets)
        all_peers == AllPeers(peer_sets)
        outlier_votes == OutlierVotes(emp_assignments)
        non_outlier_votes == total_strategies - outlier_votes
        decision == ReviewDecision(config, consensus_score, outlier_votes,
                                   non_outlier_votes, consensus_peers, all_peers)
        non_outlier_clusters == NonOutlierClusters(emp_assignments)
    IN  IF total_strategies = 0
        THEN [assignments |-> <<>>,
              consensus_cluster_id |-> None,
              consensus_score |-> Rat(0, 1),
              strategies_agreeing |-> 0,
              total_strategies |-> 0,
              peer_ids |-> {},
              peer_count |-> 0,
              needs_human_review |-> TRUE,
              disagreement_reason |-> "No clustering results available"]
        ELSE [assignments |-> [i \in 1..total_strategies |->
                                  [strategy |-> emp_assignments[i].strategy,
                                   assignment |-> emp_assignments[i].assignment]],
              consensus_cluster_id |->
                  IF Len(non_outlier_clusters) > 0 THEN MostCommon(non_outlier_clusters)
                  ELSE -1,
              consensus_score |-> consensus_score,
              strategies_agreeing |->
                  IF Len(non_outlier_clusters) > 0
                  THEN CountIn(non_outlier_clusters, MostCommon(non_outlier_clusters))
                  ELSE outlier_votes,
              total_strategies |-> total_strategies,
              peer_ids |-> all_peers,
              peer_count |-> Cardinality(all_peers),
              needs_human_review |-> decision.needs_review,
              disagreement_reason |-> decision.reason]

\* analyze_consensus: employee_id -> ConsensusResult
analyze_consensus(config, assignments_by_strategy, employee_ids) ==
    [emp_id \in employee_ids |-> ConsensusOf(config, assignments_by_strategy, emp_id)]

\* what the four library calls of the run return
LibraryOutcomes ==
    [kmeans : cluster_kmeans, hierarchical : cluster_hierarchical,
     dbscan : cluster_dbscan, graph_community : cluster_graph_community]

ClustererInit ==
    /\ clusterer_config \in ClusteringConfigs
    /\ library_outcome \in LibraryOutcomes
    /\ all_assignments = <<>>
    /\ consensus_results = <<>>
    /\ stage = "start"

\* step 3 of AnalyticsEngine.run_analysis
RunAllStrategies ==
    /\ stage = "start"
    /\ all_assignments' = run_all_strategies(library_outcome)
    /\ stage' = "clustered"
    /\ UNCHANGED <<clusterer_config, library_outcome, consensus_results>>

\* step 4 of AnalyticsEngine.run_analysis
AnalyzeConsensus ==
    /\ stage = "clustered"
    /\ consensus_results' = analyze_consensus(clusterer_config, all_assignments, Employees)
    /\ stage' = "analyzed"
    /\ UNCHANGED <<clusterer_config, library_outcome, all_assignments>>

-----------------------------------------------------------------------------
(* peer_proximity.py                                                       *)
(*                                                                         *)
(* A ProximityWeights is held as four integer numerators over one          *)
(* denominator den > 0; the weights a caller writes are in ten-thousandths *)
(* (0.25 -> 2500 over 10000).  Sub-scores and proximities are quotients.   *)

\* sum and product in lowest terms, over the least common denominator
RatPlus(a, b) ==
    LET g == GCD(a.den, b.den)
    IN  RatNorm(Rat(a.num * (b.den \div g) + b.num * (a.den \div g), (a.den \div g) * b.den))
RatTimes(a, b) ==
    LET x == RatNorm(Rat(a.num, b.den))
        y == RatNorm(Rat(b.num, a.den))
    IN  RatNorm(Rat(x.num * y.num, x.den * y.den))
RatMulInt(a, n) == RatTimes(a, Rat(n, 1))

\* min(score, 1.0)
RatMin1(a) == IF a.num > a.den THEN Rat(1, 1) ELSE a

\* ProximityWeights()
DefaultWeights ==
    [structural |-> 2500, functional |-> 3500, behavioral |-> 3000, temporal |-> 1000,
     den |-> 10000]

WeightTotal(w) == w.structural + w.functional + w.behavioral + w.temporal

\* ProximityWeights.validate: abs(total - 1.0) < 0.001
validate(w) ==
    LET diff == WeightTotal(w) - w.den
    IN  1000 * (IF diff < 0 THEN -diff ELSE diff) < w.den

\* ProximityWeights.normalize
normalize(w) ==
    LET total == WeightTotal(w)
    IN  IF total = 0 THEN DefaultWeights
        ELSE IF total > 0 THEN [w EXCEPT !.den = total]
        ELSE [structural |-> -w.structural, functional |-> -w.functional,
              behavioral |-> -w.behavioral, temporal |-> -w.temporal, den |-> -total]

\* PeerProximityCalculator.__init__: the weights the calculator holds
CalculatorWeights(w) == IF ~validate(w) THEN normalize(w) ELSE w

\* the weights a caller constructs a calculator with
WeightVectors ==
    { DefaultWeights,
      [structural |-> 10000, functional |-> 10000, behavioral |-> 10000, temporal |-> 10000,
       den |-> 10000],
      [structural |-> 0, functional |-> 0, behavioral |-> 0, temporal |-> 0, den |-> 10000],
      [structural |-> 0, functional |-> 3505, behavioral |-> 3500, temporal |-> 3000,
       den |-> 10000],
      [structural |-> 20000, functional |-> -10000, behavioral |-> 0, temporal |-> 0,
       den |-> 10000] }

\* a None or empty field of EmployeeFeatures
Null == ""

\* EmployeeFeatures values; activity intensities are in hundredths
FullFeatures ==
    [manager_id |-> "m1", team_id |-> "t1", sub_lob_id |-> "s1", lob_id |-> "lob_a",
     location_id |-> "l1", job_code |-> "c1", job_family |-> "f1", job_level |-> 4,
     cost_center_id |-> "cc1", access_set |-> {"r"}, activity_vector |-> [x \in {"r"} |-> 50],
     tenure_days |-> 365, time_in_role_days |-> 180, hire_quarter |-> "2023-Q1"]

OtherLobFeatures ==
    [FullFeatures EXCEPT !.manager_id = "m2", !.team_id = "t2", !.sub_lob_id = "s2",
                         !.lob_id = "lob_b"]

JuniorFeatures ==
    [FullFeatures EXCEPT !.job_code = "c2", !.job_level = 1,
                         !.access_set = {"r", "s"}, !.activity_vector = [x \in {"s"} |-> 100],
                         !.tenure_days = 730, !.time_in_role_days = 360,
                         !.hire_quarter = "2022-Q1"]

NullFeatures ==
    [manager_id |-> Null, team_id |-> Null, sub_lob_id |-> Null, lob_id |-> Null,
     location_id |-> Null, job_code |-> Null, job_family |-> Null, job_level |-> 0,
     cost_center_id |-> Null, access_set |-> {}, activity_vector |-> <<>>,
     tenure_days |-> 0, time_in_role_days |-> 0, hire_quarter |-> Null]

FeatureValues == {FullFeatures, OtherLobFeatures, JuniorFeatures, NullFeatures}

\* employee_ids handed to calculate_pairwise_proximity_matrix
ProxEmployees == 1..NumProxEmployees

\* the features dicts: an employee may have no entry
FeatureDicts == UNION {[S -> FeatureValues] : S \in SUBSET ProxEmployees}

\* the manager chain of an employee in the manager_chains lookup
ChainOf(feat) == IF feat.manager_id # Null THEN <<feat.manager_id, "ceo">> ELSE <<>>

\* chain.index(ancestor)
IndexIn(chain, ancestor) == (CHOOSE k \in 1..Len(chain) : chain[k] = ancestor) - 1

\* calculate_structural_proximity, in hundredths before the chain term
calculate_structural_proximity(emp_a, emp_b, use_chains) ==
    LET Same(x, y, points) == IF x # Null /\ x = y THEN points ELSE 0
        flat == Same(emp_a.manager_id, emp_b.manager_id, 30)
                  + Same(emp_a.team_id, emp_b.team_id, 20)
                  + Same(emp_a.sub_lob_id, emp_b.sub_lob_id, 15)
                  + Same(emp_a.lob_id, emp_b.lob_id, 10)
                  + Same(emp_a.location_id, emp_b.location_id, 5)
        chain_a == ChainOf(emp_a)
        chain_b == ChainOf(emp_b)
        common == {chain_a[k] : k \in 1..Len(chain_a)} \cap {chain_b[k] : k \in 1..Len(chain_b)}
        dists == {IndexIn(chain_a, x) + IndexIn(chain_b, x) : x \in common}
        min_dist == CHOOSE d \in dists : \A o \in dists : d <= o
    IN  IF use_chains /\ common # {}
        THEN RatMin1(RatPlus(Rat(flat, 100), Rat(20, 100 * (1 + min_dist))))
        ELSE RatMin1(Rat(flat, 100))

\* calculate_functional_proximity
calculate_functional_proximity(emp_a, emp_b) ==
    LET Same(x, y, points) == IF x # Null /\ x = y THEN points ELSE 0
        flat == Same(emp_a.job_code, emp_b.job_code, 35)
                  + Same(emp_a.job_family, emp_b.job_family, 25)
                  + Same(emp_a.cost_center_id, emp_b.cost_center_id, 20)
        level_diff == IF emp_a.job_level >= emp_b.job_level
                      THEN emp_a.job_level - emp_b.job_level
                      ELSE emp_b.job_level - emp_a.job_level
        level == IF emp_a.job_level > 0 /\ emp_b.job_level > 0
                 THEN Rat(20 * Max(0, 7 - level_diff), 700)
                 ELSE Rat(0, 1)
    IN  RatMin1(RatPlus(Rat(flat, 100), level))

\* dot product and norm of activity vectors over all_resources; the norm is
\* that of a vector with at most one entry, the square root of a square
Dot(vec_a, vec_b) ==
    LET both == DOMAIN vec_a \cap DOMAIN vec_b
        F[S \in SUBSET both] ==
            IF S = {} THEN 0
            ELSE LET x == CHOOSE y \in S : TRUE IN vec_a[x] * vec_b[x] + F[S \ {x}]
    IN  F[both]
NormOf(vec) == IF DOMAIN vec = {} THEN 0 ELSE vec[CHOOSE x \in DOMAIN vec : TRUE]

\* calculate_behavioral_proximity
calculate_behavioral_proximity(emp_a, emp_b) ==
    LET union == emp_a.access_set \cup emp_b.access_set
        overlap == IF union # {}
                   THEN Rat(Cardinality(emp_a.access_set \cap emp_b.access_set),
                            2 * Cardinality(union))
                   ELSE Rat(0, 1)
        norm_a == NormOf(emp_a.activity_vector)
        norm_b == NormOf(emp_b.activity_vector)
        pattern == IF DOMAIN emp_a.activity_vector # {} /\ DOMAIN emp_b.activity_vector # {}
                      /\ norm_a > 0 /\ norm_b > 0
                   THEN Rat(Dot(emp_a.activity_vector, emp_b.activity_vector),
                            2 * norm_a * norm_b)
                   ELSE Rat(0, 1)
    IN  RatMin1(RatPlus(overlap, pattern))

\* np.exp(-(diff ** 2) / (2 * sigma ** 2)) for the differences that occur:
\* 1 for no difference, exp(-1/2) to three decimals for a difference of sigma
Gaussian(diff, sigma) ==
    CASE diff = 0 -> Rat(1, 1)
      [] diff = sigma \/ diff = -sigma -> Rat(607, 1000)

\* calculate_temporal_proximity
calculate_temporal_proximity(emp_a, emp_b) ==
    LET tenure == IF emp_a.tenure_days > 0 /\ emp_b.tenure_days > 0
                  THEN RatMulInt(Gaussian(emp_a.tenure_days - emp_b.tenure_days, 365), 4)
                  ELSE Rat(0, 1)
        role == IF emp_a.time_in_role_days > 0 /\ emp_b.time_in_role_days > 0
                THEN RatMulInt(Gaussian(emp_a.time_in_role_days - emp_b.time_in_role_days, 180), 3)
                ELSE Rat(0, 1)
        cohort == IF emp_a.hire_quarter # Null /\ emp_a.hire_quarter = emp_b.hire_quarter
                  THEN Rat(3, 1) ELSE Rat(0, 1)
        tenths == RatPlus(RatPlus(tenure, role), cohort)
    IN  RatMin1(Rat(tenths.num, 10 * tenths.den))

\* calculate_proximity: the overall score
calculate_proximity(weights, emp_a, emp_b, use_chains) ==
    LET structural == calculate_structural_proximity(emp_a, emp_b, use_chains)
        functional == calculate_functional_proximity(emp_a, emp_b)
        behavioral == calculate_behavioral_proximity(emp_a, emp_b)
        temporal == calculate_temporal_proximity(emp_a, emp_b)
        Weighted(weight, sub_score) == RatTimes(Rat(weight, weights.den), sub_score)
        weighted == RatPlus(RatPlus(Weighted(weights.structural, structural),
                                    Weighted(weights.functional, functional)),
                            RatPlus(Weighted(weights.behavioral, behavioral),
                                    Weighted(weights.temporal, temporal)))
    IN  weighted

\* the key of lob_groups an employee is filed under
LobGroup(feat) == IF feat.lob_id # Null THEN feat.lob_id ELSE "unknown"

\* PairCompared comparing across LOBs whatever block_by_lob is
PairCompared_AcrossLobs(features, block_by_lob, a, b) ==
    a \in DOMAIN features /\ b \in DOMAIN features

\* whether the loops reach the pair (a, b) of employees
PairCompared(features, block_by_lob, a, b) ==
    /\ a \in DOMAIN features
    /\ b \in DOMAIN features
    /\ block_by_lob => LobGroup(features[a]) = LobGroup(features[b])

\* calculate_pairwise_proximity_matrix: the entry of a compared pair is the
\* proximity of the earlier employee to the later one, written to both cells
calculate_pairwise_proximity_matrix(weights, features, use_chains, block_by_lob) ==
    [i \in ProxEmployees |-> [j \in ProxEmployees |->
        IF i = j THEN Rat(1, 1)
        ELSE IF PairCompared(features, block_by_lob, Min(i, j), Max(i, j))
             THEN calculate_proximity(weights, features[Min(i, j)], features[Max(i, j)],
                                      use_chains)
             ELSE Rat(0, 1)]]

\* The label vectors AgglomerativeClustering is taken to return for
\* n_clusters = 2: one employee apart from the others
HierarchicalLabels ==
    {[e \in ProxEmployees |-> IF e = apart THEN 1 ELSE 0] : apart \in ProxEmployees}

\* the ClusterAssignments cluster_hierarchical builds from the labels:
\* confidence is the average proximity to the other members of the cluster
HierarchicalAssignments(proximity_matrix, labels) ==
    LET Members(i) == {j \in ProxEmployees : labels[j] = labels[i] /\ j # i}
        Total[i \in ProxEmployees, S \in SUBSET ProxEmployees] ==
            IF S = {} THEN Rat(0, 1)
            ELSE LET j == CHOOSE x \in S : TRUE
                 IN  RatPlus(proximity_matrix[i][j], Total[i, S \ {j}])
        Mean(i) == LET t == Total[i, Members(i)]
                   IN  RatNorm(Rat(t.num, t.den * Cardinality(Members(i))))
    IN  [i \in ProxEmployees |->
            [cluster_id |-> labels[i],
             confidence |-> IF Members(i) # {} THEN Mean(i) ELSE Rat(1, 1),
             is_outlier |-> FALSE]]

\* w / sum(w), for a w of positive sum
Normalized(w) == IF WeightTotal(w) > 0 THEN [w EXCEPT !.den = WeightTotal(w)] ELSE w

\* Two runs on the same features: run 1 is configured with the weights w,
\* run 2 with w / sum(w).
Runs == {1, 2}
WeightsOfRun(input, r) == IF r = 1 THEN input.weights ELSE Normalized(input.weights)

ProximityInputs ==
    [weights : WeightVectors, features : FeatureDicts, manager_chains : BOOLEAN,
     block_by_lob : BOOLEAN, labels : HierarchicalLabels]

NotYet == [done |-> FALSE]

ProximityInit ==
    /\ prox_input \in ProximityInputs
    /\ calculator = [r \in Runs |-> NotYet]
    /\ run_matrix = [r \in Runs |-> NotYet]
    /\ run_clusters = [r \in Runs |-> NotYet]
    /\ prox_pc = [run |-> 1, step |-> "construct"]

\* PeerProximityCalculator(weights=proximity_weights), in AnalyticsEngine.__init__
Construct ==
    /\ prox_pc.step = "construct"
    /\ calculator' = [calculator EXCEPT ![prox_pc.run] =
                         [done |-> TRUE,
                          weights |-> CalculatorWeights(WeightsOfRun(prox_input, prox_pc.run))]]
    /\ prox_pc' = [prox_pc EXCEPT !.step = "matrix"]
    /\ UNCHANGED <<prox_input, run_matrix, run_clusters>>

\* step 2 of run_analysis
CalculateMatrix ==
    /\ prox_pc.step = "matrix"
    /\ run_matrix' = [run_matrix EXCEPT ![prox_pc.run] =
                               [done |-> TRUE,
                                cells |-> calculate_pairwise_proximity_matrix(
                                              calculator[prox_pc.run].weights,
                                              prox_input.features,
                                              prox_input.manager_chains,
                                              prox_input.block_by_lob)]]
    /\ prox_pc' = [prox_pc EXCEPT !.step = "cluster"]
    /\ UNCHANGED <<prox_input, calculator, run_clusters>>

\* the hierarchical strategy of step 3; the next run starts after it
ClusterHierarchical ==
    /\ prox_pc.step = "cluster"
    /\ run_clusters' = [run_clusters EXCEPT ![prox_pc.run] =
                                  [done |-> TRUE,
                                   hierarchical |-> HierarchicalAssignments(
                                                        run_matrix[prox_pc.run].cells,
                                                        prox_input.labels)]]
    /\ prox_pc' = IF prox_pc.run = 1 THEN [run |-> 2, step |-> "construct"]
                  ELSE [prox_pc EXCEPT !.step = "done"]
    /\ UNCHANGED <<prox_input, calculator, run_matrix>>

\* the proximity variables where the calculator is not exercised
ProximityIdle ==
    /\ prox_input = [weights |-> DefaultWeights, features |-> <<>>, manager_chains |-> FALSE,
                     block_by_lob |-> TRUE, labels |-> [e \in ProxEmployees |-> 0]]
    /\ calculator = [r \in Runs |-> NotYet]
    /\ run_matrix = [r \in Runs |-> NotYet]
    /\ run_clusters = [r \in Runs |-> NotYet]
    /\ prox_pc = [run |-> 1, step |-> "idle"]

-----------------------------------------------------------------------------
(* engine.py                                                               *)

\* rows of the lobs table
Lobs == <<[id |-> "lob_a", name |-> "Alpha"], [id |-> "lob_b", name |-> "Beta"]>>

\* rows of the teams table
Teams == {[id |-> "team_a", lob_id |-> "lob_a"], [id |-> "team_b", lob_id |-> "lob_b"]}

\* team_id of the active employees: all of them work in team_a, so that LOB
\* lob_b exists and has no active employee
TeamOf(e) == "team_a"

\* a lob_filter that is None or empty
NoFilter == ""

\* the lob_filter arguments of run_analysis
LobFilters == {NoFilter, "lob_a", "Alpha", "lob_b", "Beta", "Gamma", "lob_x"}

\* lob_filter.startswith("lob_")
StartsWithLob(filter) == filter \in {"lob_a", "lob_b", "lob_x"}

\* FilterEmployees keeping every employee when the name is not found
FilterEmployees_UnknownKeepsAll(filter) ==
    LET Named(l) == l.name = filter
        matching_lobs == SelectSeq(Lobs, Named)
        lob_id == IF StartsWithLob(filter) THEN filter
                  ELSE IF Len(matching_lobs) > 0 THEN matching_lobs[1].id
                  ELSE NoFilter
    IN  IF filter # NoFilter /\ lob_id # NoFilter
        THEN LET team_ids_in_lob == {t.id : t \in {u \in Teams : u.lob_id = lob_id}}
             IN  {e \in Employees : TeamOf(e) \in team_ids_in_lob}
        ELSE Employees

\* the employees run_analysis keeps for a lob_filter
FilterEmployees(filter) ==
    IF filter = NoFilter THEN Employees
    ELSE LET Named(l) == l.name = filter
             matching_lobs == SelectSeq(Lobs, Named)
             lob_id == IF StartsWithLob(filter) THEN filter
                       ELSE IF Len(matching_lobs) > 0 THEN matching_lobs[1].id
                       ELSE NoFilter
         IN  IF lob_id # NoFilter
             THEN LET team_ids_in_lob == {t.id : t \in {u \in Teams : u.lob_id = lob_id}}
                  IN  {e \in Employees : TeamOf(e) \in team_ids_in_lob}
             ELSE {}

\* What load_data has read besides the tables above: the employees holding a
\* grant on the one resource (the grant's id is its employee's id), and the
\* sensitivity of that resource.
Snapshots ==
    [holders : {{}, Employees, {1, NumEmployees}},
     sensitivity : {"Public", "Critical"}]

\* activity_summaries: employee 1 has a row for the resource, nobody else has
HasActivity(emp_id) == emp_id = 1
ActivityRow == [total_access_count |-> 20, days_since_last_use |-> 1, access_count_30d |-> 20]

\* the UsagePattern score_all_grants builds from activity_summaries.get(key, {})
UsageOf(emp_id) ==
    IF HasActivity(emp_id)
    THEN [total_access_count |-> ActivityRow.total_access_count,
          last_accessed_days_ago |-> ActivityRow.days_since_last_use,
          access_count_30d |-> ActivityRow.access_count_30d]
    ELSE [total_access_count |-> 0, last_accessed_days_ago |-> None, access_count_30d |-> 0]

\* PeersForGrant handing over every other employee where there is no peer
PeersForGrant_Everyone(consensus, emp_id) ==
    IF emp_id \in DOMAIN consensus /\ consensus[emp_id].peer_ids # {}
    THEN consensus[emp_id].peer_ids
    ELSE Employees \ {emp_id}

\* the peer list score_all_grants hands to calculate_score for a grant
PeersForGrant(consensus, emp_id) ==
    IF emp_id \in DOMAIN consensus THEN consensus[emp_id].peer_ids ELSE {}

\* the maps that pick one value of choices[g] for every g of grants
RECURSIVE PickEach(_, _)
PickEach(grants, choices) ==
    IF grants = {} THEN {<<>>}
    ELSE LET g == CHOOSE x \in grants : TRUE
         IN  {m @@ (g :> c) : m \in PickEach(grants \ {g}, choices), c \in choices[g]}

\* score_all_grants: grant_id -> AssuranceScore
score_all_grants(config, holders, sensitivity, consensus) ==
    LET access_by_employee == [e \in Employees |-> IF e \in holders THEN {TheResource} ELSE {}]
        scores == [g \in holders |->
                      calculate_score(config, TheResource, sensitivity,
                                      PeersForGrant(consensus, g), access_by_employee,
                                      UsageOf(g))]
    IN  PickEach(holders, scores)

\* before run_analysis has returned
NoResult == [returned |-> FALSE]

\* the AnalyticsResult of an empty employee set
EmptyResult ==
    [returned |-> TRUE,
     employee_features |-> <<>>,
     cluster_assignments |-> <<>>,
     consensus_results |-> <<>>,
     assurance_scores |-> <<>>,
     total_employees |-> 0,
     total_grants |-> 0,
     high_assurance_count |-> 0,
     medium_assurance_count |-> 0,
     low_assurance_count |-> 0,
     auto_certify_eligible_count |-> 0,
     needs_human_review_count |-> 0,
     clustering_disagreement_count |-> 0]

\* FullResult reporting the number of employees as total_grants
FullResult_GrantsAsEmployees(employees, access_grants, cluster_assignments, consensus, assurance_scores) ==
    LET Classified(c) == {g \in DOMAIN assurance_scores : assurance_scores[g].classification = c}
    IN  [returned |-> TRUE,
         employee_features |-> [e \in employees |-> [employee_id |-> e]],
         cluster_assignments |-> cluster_assignments,
         consensus_results |-> consensus,
         assurance_scores |-> assurance_scores,
         total_employees |-> Cardinality(employees),
         total_grants |-> Cardinality(employees),
         high_assurance_count |-> Cardinality(Classified("high_assurance")),
         medium_assurance_count |-> Cardinality(Classified("medium_assurance")),
         low_assurance_count |-> Cardinality(Classified("low_assurance")),
         auto_certify_eligible_count |->
             Cardinality({g \in DOMAIN assurance_scores : assurance_scores[g].auto_certify_eligible}),
         needs_human_review_count |->
             Cardinality({e \in DOMAIN consensus : consensus[e].needs_human_review}),
         clustering_disagreement_count |->
             Cardinality({e \in DOMAIN consensus : RatLess(consensus[e].consensus_score, Rat(7, 10))})]

\* the AnalyticsResult run_analysis builds after step 5
FullResult(employees, access_grants, cluster_assignments, consensus, assurance_scores) ==
    LET Classified(c) == {g \in DOMAIN assurance_scores : assurance_scores[g].classification = c}
    IN  [returned |-> TRUE,
         employee_features |-> [e \in employees |-> [employee_id |-> e]],
         cluster_assignments |-> cluster_assignments,
         consensus_results |-> consensus,
         assurance_scores |-> assurance_scores,
         total_employees |-> Cardinality(employees),
         total_grants |-> Cardinality(access_grants),
         high_assurance_count |-> Cardinality(Classified("high_assurance")),
         medium_assurance_count |-> Cardinality(Classified("medium_assurance")),
         low_assurance_count |-> Cardinality(Classified("low_assurance")),
         auto_certify_eligible_count |->
             Cardinality({g \in DOMAIN assurance_scores : assurance_scores[g].auto_certify_eligible}),
         needs_human_review_count |->
             Cardinality({e \in DOMAIN consensus : consensus[e].needs_human_review}),
         clustering_disagreement_count |->
             Cardinality({e \in DOMAIN consensus : RatLess(consensus[e].consensus_score, Rat(7, 10))})]

\* The library calls of a whole run: of the label vectors of each strategy,
\* those that set at most the last employee apart from the others.
OneApart(outcome) ==
    \/ outcome.raised
    \/ outcome.assignments = <<>>
    \/ \A e \in Employees \ {NumEmployees} :
            outcome.assignments[e].cluster_id = outcome.assignments[1].cluster_id
RunOutcomes ==
    [kmeans : {o \in cluster_kmeans : OneApart(o)},
     hierarchical : {o \in cluster_hierarchical : OneApart(o)},
     dbscan : {o \in cluster_dbscan : OneApart(o)},
     graph_community : {o \in cluster_graph_community : OneApart(o)}]

EngineInit ==
    /\ snapshot \in Snapshots
    /\ lob_filter \in LobFilters
    /\ result = NoResult

\* run_analysis up to the empty-employee-set return
BeginAnalysis ==
    /\ stage = "called"
    /\ IF FilterEmployees(lob_filter) = {}
       THEN result' = EmptyResult /\ stage' = "returned"
       ELSE result' = result /\ stage' = "start"
    /\ UNCHANGED <<snapshot, lob_filter>>
    /\ UNCHANGED <<clusterer_config, library_outcome, all_assignments, consensus_results>>

\* step 5 of run_analysis, the summary statistics and the return
ScoreAllGrants ==
    /\ stage = "analyzed"
    /\ \E scores \in score_all_grants(scorer_config, snapshot.holders, snapshot.sensitivity,
                                      consensus_results) :
          result' = FullResult(FilterEmployees(lob_filter), snapshot.holders,
                               all_assignments, consensus_results, scores)
    /\ stage' = "returned"
    /\ UNCHANGED <<snapshot, lob_filter>>
    /\ UNCHANGED <<clusterer_config, library_outcome, all_assignments, consensus_results>>

-----------------------------------------------------------------------------
(* Two runs of run_analysis on one snapshot                                *)
(*                                                                         *)
(* Each run is a process of its own: it has a wall clock, read by          *)
(* datetime.now() in extract_features, and a string hash seed, which       *)
(* orders the iteration of a set of employee ids.  Times are in hours.     *)

\* hire_date (and role_start_date) of the employees of the snapshot
HireHours == {12, 36}

\* datetime.now() when a run extracts its features
StartHours == {35, 37, 61}

\* (datetime.now() - hd).days
DaysBetween(now, hd) == (now - hd) \div 24

\* the orders in which a process iterates a set of employee ids
HashOrders ==
    {order \in [1..NumProxEmployees -> ProxEmployees] :
        \A i, j \in 1..NumProxEmployees : i # j => order[i] # order[j]}

\* list(all_peers): the members in the iteration order of the process
ListOf(all_peers, hash_order) ==
    LET Member(x) == x \in all_peers
    IN  SelectSeq(hash_order, Member)

\* extract_features: every employee of the snapshot has the same row
extract_features(hire_hour, now) ==
    [e \in ProxEmployees |->
        [FullFeatures EXCEPT !.tenure_days = DaysBetween(now, hire_hour),
                             !.time_in_role_days = DaysBetween(now, hire_hour)]]

\* analyze_consensus with peer_ids as the list it stores
ConsensusWithPeerLists(assignments_by_strategy, hash_order) ==
    LET results == analyze_consensus([consensus_threshold |-> 7], assignments_by_strategy,
                                     ProxEmployees)
    IN  [e \in ProxEmployees |->
            [results[e] EXCEPT !.peer_ids = ListOf(results[e].peer_ids, hash_order)]]

ReplayInputs == [hire_hour : HireHours, labels : HierarchicalLabels]

Processes == [now : StartHours, hash_order : HashOrders]

ReplayInit ==
    /\ replay_input \in ReplayInputs
    /\ process \in [Runs -> Processes]
    /\ replay = [r \in Runs |-> [step |-> "extract"]]

\* step 1 of run_analysis
ExtractFeatures ==
    \E r \in Runs :
        /\ replay[r].step = "extract"
        /\ r = 2 => replay[1].step = "returned"
        /\ replay' = [replay EXCEPT ![r] =
                         [step |-> "cluster",
                          employee_features |-> extract_features(replay_input.hire_hour,
                                                                 process[r].now)]]
        /\ UNCHANGED <<replay_input, process>>

\* the labels DBSCAN returns when every employee is within eps of the others
DbscanOneCluster == [e \in ProxEmployees |-> 0]

\* the ClusterAssignments cluster_dbscan builds from the labels
DbscanAssignments(proximity_matrix, labels) ==
    LET clustered == HierarchicalAssignments(proximity_matrix, labels)
    IN  [e \in ProxEmployees |->
            IF labels[e] = -1
            THEN [cluster_id |-> -1, confidence |-> Rat(0, 1), is_outlier |-> TRUE]
            ELSE clustered[e]]

\* steps 2 and 3: the matrix and the two strategies that succeed
ReplayCluster ==
    \E r \in Runs :
        /\ replay[r].step = "cluster"
        /\ LET matrix == calculate_pairwise_proximity_matrix(
                             CalculatorWeights(DefaultWeights), replay[r].employee_features,
                             FALSE, TRUE)
           IN  replay' = [replay EXCEPT ![r] =
                             [step |-> "consensus",
                              employee_features |-> replay[r].employee_features,
                              cluster_assignments |->
                                  <<[strategy |-> "hierarchical",
                                     assignments |-> HierarchicalAssignments(
                                                         matrix, replay_input.labels)],
                                    [strategy |-> "dbscan",
                                     assignments |-> DbscanAssignments(
                                                         matrix, DbscanOneCluster)]>>]]
        /\ UNCHANGED <<replay_input, process>>

\* step 4, after which the run returns its AnalyticsResult
ReplayConsensus ==
    \E r \in Runs :
        /\ replay[r].step = "consensus"
        /\ replay' = [replay EXCEPT ![r] =
                         [step |-> "returned",
                          employee_features |-> replay[r].employee_features,
                          cluster_assignments |-> replay[r].cluster_assignments,
                          consensus_results |-> ConsensusWithPeerLists(
                                                    replay[r].cluster_assignments,
                                                    process[r].hash_order)]]
        /\ UNCHANGED <<replay_input, process>>

\* the replay variables where no run is replayed
ReplayIdle ==
    /\ replay_input = [hire_hour |-> 12, labels |-> [e \in ProxEmployees |-> 0]]
    /\ process = [r \in Runs |-> [now |-> 35, hash_order |-> [i \in 1..NumProxEmployees |-> i]]]
    /\ replay = [r \in Runs |-> [step |-> "idle"]]

-----------------------------------------------------------------------------
(* engine.py and peer_proximity.py: the LOB of an employee                 *)

\* rows of the teams table: a team may carry its lob_id, or only its
\* sub_lob_id, or neither
OrgTeams ==
    {[id |-> "team_a", sub_lob_id |-> "sub_a", lob_id |-> "lob_a"],
     [id |-> "team_b", sub_lob_id |-> Null, lob_id |-> "lob_b"],
     [id |-> "team_s", sub_lob_id |-> "sub_a", lob_id |-> Null],
     [id |-> "team_n", sub_lob_id |-> Null, lob_id |-> Null]}

\* rows of the sub_lobs table
OrgSubLobs == {[id |-> "sub_a", lob_id |-> "lob_a"]}

\* team_id of an employee row: a team, None, or a team that does not exist
TeamIds == {t.id : t \in OrgTeams} \cup {Null, "team_gone"}

\* the employees table: the team of each active employee
OrgSnapshots == [team_of : [ProxEmployees -> TeamIds]]

\* dict.get on the lookup tables: the row, or no row
LookupTeam(team_id) == {t \in OrgTeams : t.id = team_id}
LookupSubLob(sub_lob_id) == {s \in OrgSubLobs : s.id = sub_lob_id}

\* extract_features: lob_id of the team, or of the team's sub-LOB when the
\* team has none
ResolveLob(team_id) ==
    LET team == LookupTeam(team_id)
        sub_lob_id == IF team # {} THEN (CHOOSE t \in team : TRUE).sub_lob_id ELSE Null
        lob_id == IF team # {} THEN (CHOOSE t \in team : TRUE).lob_id ELSE Null
        sub_lob == LookupSubLob(sub_lob_id)
    IN  IF sub_lob_id # Null /\ lob_id = Null
        THEN (IF sub_lob # {} THEN (CHOOSE s \in sub_lob : TRUE).lob_id ELSE Null)
        ELSE lob_id

\* the lob_id run_analysis filters by: the filter itself when it starts with
\* "lob_", else the id of the first LOB of that name, else None
RequestedLobId(filter) ==
    LET Named(l) == l.name = filter
        matching_lobs == SelectSeq(Lobs, Named)
    IN  IF StartsWithLob(filter) THEN filter
        ELSE IF Len(matching_lobs) > 0 THEN matching_lobs[1].id
        ELSE Null

\* the employees run_analysis keeps for a non-empty lob_filter
EmployeesInLob(filter, team_of) ==
    LET lob_id == RequestedLobId(filter)
    IN  IF lob_id # Null
        THEN LET team_ids_in_lob == {t.id : t \in {u \in OrgTeams : u.lob_id = lob_id}}
             IN  {e \in ProxEmployees : team_of[e] \in team_ids_in_lob}
        ELSE {}

LobFilterInit ==
    /\ snapshot \in OrgSnapshots
    /\ lob_filter \in LobFilters \ {NoFilter}
    /\ result = NoResult
    /\ stage = "called"

\* run_analysis: the filter, and the return of the empty result
FilterByLob ==
    /\ stage = "called"
    /\ LET employees == EmployeesInLob(lob_filter, snapshot.team_of)
       IN  IF employees = {}
           THEN result' = EmptyResult /\ stage' = "returned"
           ELSE result' = [returned |-> FALSE, employees |-> employees] /\ stage' = "filtered"
    /\ UNCHANGED <<snapshot, lob_filter>>
    /\ UNCHANGED <<clusterer_config, library_outcome, all_assignments, consensus_results>>

\* step 1 of run_analysis, and the employee_features of the result
ExtractLobFeatures ==
    /\ stage = "filtered"
    /\ result' = [returned |-> TRUE,
                  employee_features |->
                      [e \in result.employees |-> [employee_id |-> e,
                                                   team_id |-> snapshot.team_of[e],
                                                   lob_id |-> ResolveLob(snapshot.team_of[e])]],
                  total_employees |-> Cardinality(result.employees)]
    /\ stage' = "returned"
    /\ UNCHANGED <<snapshot, lob_filter>>
    /\ UNCHANGED <<clusterer_config, library_outcome, all_assignments, consensus_results>>

-----------------------------------------------------------------------------
(* api/main.py and engine.py: the engine every request shares              *)

\* team_id of the employees of the shared engine's database
SharedTeamIds == {"team_a", "team_b", Null}

\* what the database holds when the engine loads it: the team of each
\* active employee and the employees holding a grant (the grant's id is its
\* employee's id)
Databases ==
    [team_of : [ProxEmployees -> SharedTeamIds],
     access_grants : {ProxEmployees, {1}}]

\* _engine before get_engine has created it
NoEngine == [loaded |-> FALSE]

\* AnalyticsEngine(DB_PATH) and load_data: the snapshot and the empty caches
LoadData(db) ==
    [loaded |-> TRUE,
     employees |-> ProxEmployees,
     team_of |-> db.team_of,
     access_grants |-> db.access_grants,
     features_cache |-> <<>>,
     results_cache |-> <<>>]

\* get_engine: the singleton, created and loaded on first use
get_engine(eng, db) == IF eng.loaded THEN eng ELSE LoadData(db)

\* the employees run_analysis keeps, of the engine's own list
KeptEmployees(eng, filter) ==
    IF filter = NoFilter THEN eng.employees
    ELSE {e \in eng.employees : e \in EmployeesInLob(filter, eng.team_of)}

\* the features step 1 extracts for the kept employees
FeaturesOf(eng, employees) ==
    [e \in employees |-> [employee_id |-> e,
                          team_id |-> eng.team_of[e],
                          lob_id |-> ResolveLob(eng.team_of[e])]]

\* the AnalyticsResult of a run: who was analysed and which grants were scored
RunResult(eng, filter) ==
    LET employees == KeptEmployees(eng, filter)
        access_grants == {g \in eng.access_grants : g \in employees}
    IN  IF employees = {} THEN EmptyResult
        ELSE [returned |-> TRUE,
              employee_features |-> FeaturesOf(eng, employees),
              consensus_results |-> [e \in employees |-> [employee_id |-> e]],
              assurance_scores |-> [g \in access_grants |-> [grant_id |-> g, employee_id |-> g]],
              total_employees |-> Cardinality(employees),
              total_grants |-> Cardinality(access_grants)]

\* EngineAfterRun keeping the filtered employees as the engine's list
EngineAfterRun_KeepsFiltered(eng, run) ==
    [eng EXCEPT !.employees = DOMAIN run.employee_features,
                !.features_cache = run.employee_features,
                !.results_cache = run.consensus_results]

\* what a run that analysed somebody leaves on the engine: the caches of the
\* calculator and of the clusterer, and nothing else
EngineAfterRun(eng, run) ==
    [eng EXCEPT !.features_cache = run.employee_features,
                !.results_cache = run.consensus_results]

SharedInit ==
    /\ database \in Databases
    /\ engine = NoEngine
    /\ run_log = <<>>
    /\ lob_filter = NoFilter
    /\ result = NoResult

\* POST /api/analytics/run: get_engine, then run_analysis on the shared engine
RunAnalytics ==
    /\ Len(run_log) < MaxRuns
    /\ \E lob \in LobFilters :
          LET eng == get_engine(engine, database)
              run == RunResult(eng, lob)
          IN  /\ engine' = IF run.total_employees = 0 THEN eng ELSE EngineAfterRun(eng, run)
              /\ result' = run
              /\ lob_filter' = lob
              /\ run_log' = Append(run_log, [lob_filter |-> lob, result |-> run])
    /\ UNCHANGED database

\* no request has reached the shared engine
SharedIdle ==
    /\ database = [team_of |-> [e \in ProxEmployees |-> Null], access_grants |-> {1}]
    /\ engine = NoEngine
    /\ run_log = <<>>

-----------------------------------------------------------------------------
(* api/main.py: campaigns and their review items                           *)

\* CampaignCreate.auto_approve_threshold and review_threshold as requested
AutoApproveThresholds == {80, 90}
ReviewThreshold == 50

\* the status values a PATCH request carries
PatchStatuses == {"Draft", "Completed"}

\* UsagePattern of a grant used yesterday, and of one last used 60 days ago
UsedYesterday == [total_access_count |-> 20, last_accessed_days_ago |-> 1, access_count_30d |-> 20]
UsedLongAgo == [total_access_count |-> 5, last_accessed_days_ago |-> 60, access_count_30d |-> 0]

\* a grant as the analysis sees it: the sensitivity of its resource, its
\* peers and how many of them hold the resource, its usage, and whether the
\* consensus of its employee needs human review
GrantCases ==
    {[resource_sensitivity |-> "Public", total_peers |-> 4, peers_with |-> 4,
      usage |-> UsedYesterday, needs_human_review |-> FALSE],
     [resource_sensitivity |-> "Public", total_peers |-> 4, peers_with |-> 4,
      usage |-> UsedYesterday, needs_human_review |-> TRUE],
     [resource_sensitivity |-> "Critical", total_peers |-> 4, peers_with |-> 4,
      usage |-> UsedYesterday, needs_human_review |-> FALSE],
     [resource_sensitivity |-> "Public", total_peers |-> 4, peers_with |-> 4,
      usage |-> UsedLongAgo, needs_human_review |-> FALSE],
     [resource_sensitivity |-> "Public", total_peers |-> 2, peers_with |-> 2,
      usage |-> UsedYesterday, needs_human_review |-> FALSE],
     [resource_sensitivity |-> "Confidential", total_peers |-> 4, peers_with |-> 4,
      usage |-> UsedYesterday, needs_human_review |-> FALSE]}

\* the grants in scope: none, or up to MaxGrants of them (the grant's id is
\* its position)
GrantTables == UNION {[1..n -> GrantCases] : n \in 0..MaxGrants}

\* the AssuranceScores the engine's scorer gives a grant
ScoresOfGrant(g) ==
    calculate_score(DefaultAssuranceConfig, TheResource, g.resource_sensitivity,
                    PeerIds(g.total_peers), AccessByEmployee(g.total_peers, g.peers_with),
                    g.usage)

\* what run_analysis returns to activate_campaign: per grant its score and
\* the needs_human_review of its employee's consensus
AnalysisResults ==
    UNION {[grants : PickEach(DOMAIN t,
                              [g \in DOMAIN t |->
                                  {[score |-> s,
                                    resource_sensitivity |-> t[g].resource_sensitivity,
                                    needs_human_review |-> t[g].needs_human_review]
                                     : s \in ScoresOfGrant(t[g])}])]
             : t \in GrantTables}

TotalGrants(res) == Cardinality(DOMAIN res.grants)

RECURSIVE SumOver(_, _)
SumOver(f, S) ==
    IF S = {} THEN 0
    ELSE LET x == CHOOSE y \in S : TRUE IN f[x] + SumOver(f, S \ {x})

\* peer_group_size < small_peer_threshold, where the threshold is 3 for at
\* most one size, else max(3, mean - stdev) with the sample stdev taken only
\* of more than two sizes
IsSmallPeerGroup(peer_group_size, peer_group_sizes) ==
    LET n == Cardinality(DOMAIN peer_group_sizes)
        total == SumOver(peer_group_sizes, DOMAIN peer_group_sizes)
        squares == [g \in DOMAIN peer_group_sizes |->
                       (n * peer_group_sizes[g] - total) * (n * peer_group_sizes[g] - total)]
        gap == total - n * peer_group_size
    IN  IF n <= 1 THEN peer_group_size < 3
        ELSE IF n = 2 THEN peer_group_size < 3 \/ gap > 0
        ELSE \/ peer_group_size < 3
             \/ gap > 0 /\ SumOver(squares, DOMAIN squares) < (n - 1) * gap * gap

\* what the system would recommend, from the campaign's thresholds (scores
\* are in tenths)
SystemRecommendation(overall_score, auto_approve_threshold, review_threshold) ==
    IF overall_score >= 10 * auto_approve_threshold THEN "Certify"
    ELSE IF overall_score < 10 * review_threshold THEN "Review Carefully"
    ELSE "Likely Certify"

\* InitialStatus auto-approving every eligible score
InitialStatus_IgnoresReasons(s, human_review_reasons, review_threshold) ==
    IF s.auto_certify_eligible THEN "Auto-Approved"
    ELSE IF human_review_reasons THEN "Needs-Review"
    ELSE IF s.overall_score < 10 * review_threshold THEN "Needs-Review"
    ELSE "Pending"

\* the status a review item is created with
InitialStatus(s, human_review_reasons, review_threshold) ==
    IF s.auto_certify_eligible /\ ~human_review_reasons THEN "Auto-Approved"
    ELSE IF human_review_reasons THEN "Needs-Review"
    ELSE IF s.overall_score < 10 * review_threshold THEN "Needs-Review"
    ELSE "Pending"

\* the review_items rows activate_campaign inserts for a campaign
NewReviewItems(campaign_id, row, res) ==
    LET peer_group_sizes == [g \in DOMAIN res.grants |-> res.grants[g].score.total_peers]
    IN  [g \in DOMAIN res.grants |->
            LET s == res.grants[g].score
                needs_cluster_review == res.grants[g].needs_human_review
                is_small_peer_group == IsSmallPeerGroup(s.total_peers, peer_group_sizes)
                human_review_reasons == needs_cluster_review \/ is_small_peer_group
            IN  [campaign_id |-> campaign_id,
                 access_grant_id |-> g,
                 assurance_score |-> s.overall_score,
                 classification |-> s.classification,
                 auto_certify_eligible |-> s.auto_certify_eligible,
                 needs_clustering_review |-> needs_cluster_review,
                 status |-> InitialStatus(s, human_review_reasons, row.review_threshold),
                 system_recommendation |->
                     SystemRecommendation(s.overall_score, row.auto_approve_threshold,
                                          row.review_threshold),
                 peer_group_size |-> s.total_peers,
                 human_review_reason |-> human_review_reasons,
                 decision |-> Null]]

\* activate_campaign refusing only an archived campaign
NotDraft_OnlyArchived(row) == row.status = "Archived"

\* row_dict["status"] != CampaignStatus.DRAFT.value
NotDraft(row) == row.status # "Draft"

\* before any request
NoResponse == [op |-> "none"]

ApiInit ==
    /\ analysis \in AnalysisResults
    /\ campaigns = <<>>
    /\ review_items = <<>>
    /\ audit_records = <<>>
    /\ response = NoResponse

\* POST /api/campaigns
CreateCampaign ==
    /\ Len(campaigns) < MaxCampaigns
    /\ \E auto_approve_threshold \in AutoApproveThresholds :
          campaigns' = Append(campaigns, [status |-> "Draft",
                                          auto_approve_threshold |-> auto_approve_threshold,
                                          review_threshold |-> ReviewThreshold])
    /\ response' = [op |-> "create", campaign_id |-> Len(campaigns) + 1, status_code |-> 201]
    /\ UNCHANGED <<analysis, review_items, audit_records>>

\* PATCH /api/campaigns/{campaign_id}: a new status or a new
\* auto_approve_threshold
UpdateCampaign ==
    /\ \E campaign_id \in 1..MaxCampaigns :
          IF campaign_id \notin DOMAIN campaigns
          THEN /\ response' = [op |-> "update", campaign_id |-> campaign_id, status_code |-> 404]
               /\ UNCHANGED campaigns
          ELSE /\ \/ \E status \in PatchStatuses :
                        campaigns' = [campaigns EXCEPT ![campaign_id].status = status]
                  \/ \E auto_approve_threshold \in AutoApproveThresholds :
                        campaigns' = [campaigns EXCEPT ![campaign_id].auto_approve_threshold =
                                                           auto_approve_threshold]
               /\ response' = [op |-> "update", campaign_id |-> campaign_id, status_code |-> 200]
    /\ UNCHANGED <<analysis, review_items, audit_records>>

\* POST /api/campaigns/{campaign_id}/archive
ArchiveCampaign ==
    /\ \E campaign_id \in 1..MaxCampaigns :
          IF campaign_id \notin DOMAIN campaigns
          THEN /\ response' = [op |-> "archive", campaign_id |-> campaign_id, status_code |-> 404]
               /\ UNCHANGED campaigns
          ELSE IF campaigns[campaign_id].status = "Archived"
          THEN /\ response' = [op |-> "archive", campaign_id |-> campaign_id, status_code |-> 400]
               /\ UNCHANGED campaigns
          ELSE /\ campaigns' = [campaigns EXCEPT ![campaign_id].status = "Archived"]
               /\ response' = [op |-> "archive", campaign_id |-> campaign_id, status_code |-> 200]
    /\ UNCHANGED <<analysis, review_items, audit_records>>

\* POST /api/campaigns/{campaign_id}/activate
ActivateCampaign ==
    /\ Len(review_items) + TotalGrants(analysis) <= MaxReviewItems
    /\ \E campaign_id \in 1..MaxCampaigns :
          IF campaign_id \notin DOMAIN campaigns
          THEN /\ response' = [op |-> "activate", campaign_id |-> campaign_id, status_code |-> 404]
               /\ UNCHANGED <<campaigns, review_items>>
          ELSE IF NotDraft(campaigns[campaign_id]) \/ TotalGrants(analysis) = 0
          THEN /\ response' = [op |-> "activate", campaign_id |-> campaign_id, status_code |-> 400]
               /\ UNCHANGED <<campaigns, review_items>>
          ELSE /\ review_items' = review_items \o
                                     NewReviewItems(campaign_id, campaigns[campaign_id], analysis)
               /\ campaigns' = [campaigns EXCEPT ![campaign_id].status = "Active"]
               /\ response' = [op |-> "activate", campaign_id |-> campaign_id, status_code |-> 200]
    /\ UNCHANGED <<analysis, audit_records>>

\* no request has reached the campaign endpoints
ApiIdle ==
    /\ analysis = [grants |-> <<>>]
    /\ campaigns = <<>>
    /\ review_items = <<>>
    /\ audit_records = <<>>
    /\ weights_rows = <<>>
    /\ response = NoResponse

-----------------------------------------------------------------------------
(* api/main.py: decisions on review items                                  *)

\* DecisionAction values a reviewer submits
DecisionActions == {"Certify", "Revoke"}

\* IsAutoApproved letting every item through
IsAutoApproved_Never(row) == FALSE

\* row_dict["status"] == ReviewItemStatus.AUTO_APPROVED.value
IsAutoApproved(row) == row.status = "Auto-Approved"

\* UPDATE review_items SET status = Decided, decision = ... WHERE id = item_id
Decide(items, item_id, action) ==
    [items EXCEPT ![item_id].status = "Decided", ![item_id].decision = action]

\* the row INSERT INTO audit_records adds
AuditRecord(item_id, action, campaign_id) ==
    [review_item_id |-> item_id, action |-> action, decision_by |-> "reviewer",
     auto_certified |-> FALSE, campaign_id |-> campaign_id]

\* the loop of submit_bulk_decisions over the ids still to process; st holds
\* the two tables as the open transaction sees them, and the counters
RECURSIVE BulkLoop(_, _, _, _)
BulkLoop(st, ids, campaign_id, action) ==
    IF ids = <<>> THEN st
    ELSE LET item_id == Head(ids)
             found == /\ item_id \in DOMAIN st.items
                      /\ st.items[item_id].campaign_id = campaign_id
             after ==
                 IF ~found
                 THEN [st EXCEPT !.errors = Append(@, [item_id |-> item_id, error |-> "Not found"]),
                                 !.error_count = @ + 1]
                 ELSE IF IsAutoApproved(st.items[item_id])
                 THEN [st EXCEPT !.errors = Append(@, [item_id |-> item_id,
                                                       error |-> "Auto-approved item"]),
                                 !.error_count = @ + 1]
                 ELSE [st EXCEPT !.items = Decide(@, item_id, action),
                                 !.audits = Append(@, AuditRecord(item_id, action, campaign_id)),
                                 !.success_count = @ + 1]
         IN  BulkLoop(after, Tail(ids), campaign_id, action)

\* BulkDecisionCreate.review_item_ids: up to MaxBulk ids, known or not,
\* repeated or not
BulkIds == UNION {[1..n -> 1..(Len(review_items) + 1)] : n \in 1..MaxBulk}

\* two activated campaigns and their review items
DecisionsInit ==
    /\ analysis \in {a \in AnalysisResults :
                        TotalGrants(a) >= 1 /\ 2 * TotalGrants(a) <= MaxReviewItems}
    /\ campaigns = <<[status |-> "Active", auto_approve_threshold |-> 80,
                      review_threshold |-> ReviewThreshold],
                     [status |-> "Active", auto_approve_threshold |-> 90,
                      review_threshold |-> ReviewThreshold]>>
    /\ review_items = NewReviewItems(1, campaigns[1], analysis)
                         \o NewReviewItems(2, campaigns[2], analysis)
    /\ audit_records = <<>>
    /\ response = NoResponse

\* POST /api/review-items/{item_id}/decision
SubmitDecision ==
    /\ Len(audit_records) < MaxAuditRecords
    /\ \E item_id \in 1..(Len(review_items) + 1), action \in DecisionActions :
          IF item_id \notin DOMAIN review_items
          THEN /\ response' = [op |-> "decision", item_id |-> item_id, status_code |-> 404]
               /\ UNCHANGED <<review_items, audit_records>>
          ELSE IF IsAutoApproved(review_items[item_id])
          THEN /\ response' = [op |-> "decision", item_id |-> item_id, status_code |-> 400]
               /\ UNCHANGED <<review_items, audit_records>>
          ELSE /\ review_items' = Decide(review_items, item_id, action)
               /\ audit_records' = Append(audit_records,
                                          AuditRecord(item_id, action,
                                                      review_items[item_id].campaign_id))
               /\ response' = [op |-> "decision", item_id |-> item_id, status_code |-> 200]
    /\ UNCHANGED <<analysis, campaigns>>

\* POST /api/campaigns/{campaign_id}/bulk-decisions
SubmitBulkDecisions ==
    /\ \E campaign_id \in 1..(Len(campaigns) + 1), ids \in BulkIds, action \in DecisionActions :
          /\ Len(audit_records) + Len(ids) <= MaxAuditRecords
          /\ LET st == BulkLoop([items |-> review_items, audits |-> audit_records,
                                 success_count |-> 0, error_count |-> 0, errors |-> <<>>],
                                ids, campaign_id, action)
             IN  /\ review_items' = st.items
                 /\ audit_records' = st.audits
                 /\ response' = [op |-> "bulk", campaign_id |-> campaign_id,
                                 review_item_ids |-> ids, status_code |-> 200,
                                 success_count |-> st.success_count,
                                 error_count |-> st.error_count, errors |-> st.errors]
    /\ UNCHANGED <<analysis, campaigns>>

-----------------------------------------------------------------------------
(* api/main.py: the proximity weights                                      *)

\* weights are counted in units of 0.005, so that 200 is the sum 1.0 and 2
\* the tolerance 0.01
WeightsUpdates ==
    [structural : {49, 50}, functional : {50, 51}, behavioral : {0, 49, 50},
     temporal : {50, 51, 100}]
        \cup {[structural |-> 0, functional |-> 2, behavioral |-> 10, temporal |-> 186]}

\* the weights of the row the table setup inserts, which are also the ones
\* get_weights answers with when the table is empty
DefaultWeightsRow == [structural |-> 50, functional |-> 70, behavioral |-> 60, temporal |-> 20]

WeightsTotal(weights) ==
    weights.structural + weights.functional + weights.behavioral + weights.temporal

Distance(a, b) == IF a >= b THEN a - b ELSE b - a

\* validate_sum accepting every request
validate_sum_Always(weights) == TRUE

\* the totals at exactly 0.01 from 1.0 whose floating-point sum falls inside
\* the tolerance: 0.0 + 0.01 + 0.05 + 0.93 does, 0.245 + 0.25 + 0.245 + 0.25
\* and 0.25 + 0.255 + 0.25 + 0.255 do not
RoundsInside(weights) ==
    weights = [structural |-> 0, functional |-> 2, behavioral |-> 10, temporal |-> 186]

\* WeightsUpdate.validate_sum: abs(total - 1.0) < 0.01 in floating point
validate_sum(weights) ==
    IF Distance(WeightsTotal(weights), 200) < 2 THEN TRUE
    ELSE IF Distance(WeightsTotal(weights), 200) = 2 THEN RoundsInside(weights)
    ELSE FALSE

\* the table as the setup leaves it: with its default row, or still empty
WeightsInit ==
    /\ weights_rows \in {<<>>, <<[weights |-> DefaultWeightsRow, updated_by |-> "system"]>>}
    /\ response = NoResponse

\* PUT /api/weights
UpdateWeights ==
    /\ \E weights \in WeightsUpdates :
          /\ IF ~validate_sum(weights)
             THEN /\ response' = [op |-> "put", request |-> weights, status_code |-> 400]
                  /\ UNCHANGED weights_rows
             ELSE /\ Len(weights_rows) < MaxWeightsRows
                  /\ weights_rows' = Append(weights_rows,
                                            [weights |-> weights, updated_by |-> "admin"])
                  /\ response' = [op |-> "put", request |-> weights, status_code |-> 200,
                                  weights |-> weights, updated_by |-> "admin"]
    /\ UNCHANGED <<analysis, campaigns, review_items, audit_records>>

\* GET /api/weights: the row with the latest updated_at, else the defaults
GetWeights ==
    /\ response' = IF weights_rows # <<>>
                   THEN [op |-> "get", status_code |-> 200,
                         weights |-> weights_rows[Len(weights_rows)].weights,
                         updated_by |-> weights_rows[Len(weights_rows)].updated_by]
                   ELSE [op |-> "get", status_code |-> 200,
                         weights |-> DefaultWeightsRow, updated_by |-> Null]
    /\ UNCHANGED <<analysis, campaigns, review_items, audit_records, weights_rows>>

-----------------------------------------------------------------------------
(* Specifications                                                          *)

\* the scorer: every call of calculate_score under every configuration
InitScore ==
    /\ ScorerInit
    /\ clusterer_config = [consensus_threshold |-> 7]
    /\ library_outcome = [kmeans |-> Failed, hierarchical |-> Failed,
                          dbscan |-> Failed, graph_community |-> Failed]
    /\ all_assignments = <<>>
    /\ consensus_results = <<>>
    /\ stage = "start"
    /\ snapshot = [holders |-> {}, sensitivity |-> "Public"]
    /\ lob_filter = NoFilter
    /\ result = NoResult
    /\ ProximityIdle
    /\ ReplayIdle
    /\ SharedIdle
    /\ ApiIdle
NextScore == CalculateScore /\ UNCHANGED <<clusterVars, engineVars, proximityVars, replayVars, sharedVars, apiVars>>
SpecScore == InitScore /\ [][NextScore]_vars

\* the clusterer: clustering and consensus analysis of one run
InitConsensus ==
    /\ ClustererInit
    /\ scorer_config = DefaultAssuranceConfig
    /\ score_args = [resource_sensitivity |-> "Internal", total_peers |-> 0,
                     peers_with |-> 0,
                     usage |-> [total_access_count |-> 0, last_accessed_days_ago |-> None,
                                access_count_30d |-> 2]]
    /\ score = NoScore
    /\ snapshot = [holders |-> {}, sensitivity |-> "Public"]
    /\ lob_filter = NoFilter
    /\ result = NoResult
    /\ ProximityIdle
    /\ ReplayIdle
    /\ SharedIdle
    /\ ApiIdle
NextConsensus ==
    \/ RunAllStrategies /\ UNCHANGED <<scorerVars, engineVars, proximityVars, replayVars, sharedVars, apiVars>>
    \/ AnalyzeConsensus /\ UNCHANGED <<scorerVars, engineVars, proximityVars, replayVars, sharedVars, apiVars>>
SpecConsensus == InitConsensus /\ [][NextConsensus]_vars

\* the engine: one call of run_analysis on a loaded snapshot
InitRunAnalysis ==
    /\ EngineInit
    /\ clusterer_config = [consensus_threshold |-> 7]
    /\ library_outcome \in RunOutcomes
    /\ all_assignments = <<>>
    /\ consensus_results = <<>>
    /\ stage = "called"
    /\ scorer_config = DefaultAssuranceConfig
    /\ score_args = [resource_sensitivity |-> "Internal", total_peers |-> 0,
                     peers_with |-> 0,
                     usage |-> [total_access_count |-> 0, last_accessed_days_ago |-> None,
                                access_count_30d |-> 2]]
    /\ score = NoScore
    /\ ProximityIdle
    /\ ReplayIdle
    /\ SharedIdle
    /\ ApiIdle
NextRunAnalysis ==
    \/ BeginAnalysis /\ UNCHANGED <<scorerVars, proximityVars, replayVars, sharedVars, apiVars>>
    \/ RunAllStrategies /\ UNCHANGED <<scorerVars, engineVars, proximityVars, replayVars, sharedVars, apiVars>>
    \/ AnalyzeConsensus /\ UNCHANGED <<scorerVars, engineVars, proximityVars, replayVars, sharedVars, apiVars>>
    \/ ScoreAllGrants /\ UNCHANGED <<scorerVars, proximityVars, replayVars, sharedVars, apiVars>>
SpecRunAnalysis == InitRunAnalysis /\ [][NextRunAnalysis]_vars

\* the proximity calculator: construction, matrix and hierarchical
\* confidences of two runs that differ in how the weights are written
InitProximity ==
    /\ ProximityInit
    /\ scorer_config = DefaultAssuranceConfig
    /\ score_args = [resource_sensitivity |-> "Internal", total_peers |-> 0,
                     peers_with |-> 0,
                     usage |-> [total_access_count |-> 0, last_accessed_days_ago |-> None,
                                access_count_30d |-> 2]]
    /\ score = NoScore
    /\ clusterer_config = [consensus_threshold |-> 7]
    /\ library_outcome = [kmeans |-> Failed, hierarchical |-> Failed,
                          dbscan |-> Failed, graph_community |-> Failed]
    /\ all_assignments = <<>>
    /\ consensus_results = <<>>
    /\ stage = "start"
    /\ snapshot = [holders |-> {}, sensitivity |-> "Public"]
    /\ lob_filter = NoFilter
    /\ result = NoResult
    /\ ReplayIdle
    /\ SharedIdle
    /\ ApiIdle
NextProximity ==
    \/ Construct /\ UNCHANGED <<scorerVars, clusterVars, engineVars, replayVars, sharedVars, apiVars>>
    \/ CalculateMatrix /\ UNCHANGED <<scorerVars, clusterVars, engineVars, replayVars, sharedVars, apiVars>>
    \/ ClusterHierarchical /\ UNCHANGED <<scorerVars, clusterVars, engineVars, replayVars, sharedVars, apiVars>>
SpecProximity == InitProximity /\ [][NextProximity]_vars

\* two runs of the pipeline, one after the other, on the same snapshot
InitReplay ==
    /\ ReplayInit
    /\ scorer_config = DefaultAssuranceConfig
    /\ score_args = [resource_sensitivity |-> "Internal", total_peers |-> 0,
                     peers_with |-> 0,
                     usage |-> [total_access_count |-> 0, last_accessed_days_ago |-> None,
                                access_count_30d |-> 2]]
    /\ score = NoScore
    /\ clusterer_config = [consensus_threshold |-> 7]
    /\ library_outcome = [kmeans |-> Failed, hierarchical |-> Failed,
                          dbscan |-> Failed, graph_community |-> Failed]
    /\ all_assignments = <<>>
    /\ consensus_results = <<>>
    /\ stage = "start"
    /\ snapshot = [holders |-> {}, sensitivity |-> "Public"]
    /\ lob_filter = NoFilter
    /\ result = NoResult
    /\ ProximityIdle
    /\ SharedIdle
    /\ ApiIdle
NextReplay ==
    \/ ExtractFeatures /\ UNCHANGED <<scorerVars, clusterVars, engineVars, proximityVars, sharedVars, apiVars>>
    \/ ReplayCluster /\ UNCHANGED <<scorerVars, clusterVars, engineVars, proximityVars, sharedVars, apiVars>>
    \/ ReplayConsensus /\ UNCHANGED <<scorerVars, clusterVars, engineVars, proximityVars, sharedVars, apiVars>>
SpecReplay == InitReplay /\ [][NextReplay]_vars

\* run_analysis with a lob_filter over teams that carry their LOB in
\* different ways
InitLobFilter ==
    /\ LobFilterInit
    /\ scorer_config = DefaultAssuranceConfig
    /\ score_args = [resource_sensitivity |-> "Internal", total_peers |-> 0,
                     peers_with |-> 0,
                     usage |-> [total_access_count |-> 0, last_accessed_days_ago |-> None,
                                access_count_30d |-> 2]]
    /\ score = NoScore
    /\ clusterer_config = [consensus_threshold |-> 7]
    /\ library_outcome = [kmeans |-> Failed, hierarchical |-> Failed,
                          dbscan |-> Failed, graph_community |-> Failed]
    /\ all_assignments = <<>>
    /\ consensus_results = <<>>
    /\ ProximityIdle
    /\ ReplayIdle
    /\ SharedIdle
    /\ ApiIdle
NextLobFilter ==
    \/ FilterByLob /\ UNCHANGED <<scorerVars, proximityVars, replayVars, sharedVars, apiVars>>
    \/ ExtractLobFeatures /\ UNCHANGED <<scorerVars, proximityVars, replayVars, sharedVars, apiVars>>
SpecLobFilter == InitLobFilter /\ [][NextLobFilter]_vars

\* requests to POST /api/analytics/run on the shared engine
InitShared ==
    /\ SharedInit
    /\ stage = "start"
    /\ snapshot = [holders |-> {}, sensitivity |-> "Public"]
    /\ scorer_config = DefaultAssuranceConfig
    /\ score_args = [resource_sensitivity |-> "Internal", total_peers |-> 0,
                     peers_with |-> 0,
                     usage |-> [total_access_count |-> 0, last_accessed_days_ago |-> None,
                                access_count_30d |-> 2]]
    /\ score = NoScore
    /\ clusterer_config = [consensus_threshold |-> 7]
    /\ library_outcome = [kmeans |-> Failed, hierarchical |-> Failed,
                          dbscan |-> Failed, graph_community |-> Failed]
    /\ all_assignments = <<>>
    /\ consensus_results = <<>>
    /\ ProximityIdle
    /\ ReplayIdle
    /\ ApiIdle
NextShared ==
    RunAnalytics /\ UNCHANGED <<scorerVars, clusterVars, snapshot, proximityVars, replayVars, apiVars>>
SpecShared == InitShared /\ [][NextShared]_vars

\* requests to the campaign endpoints
InitCampaign ==
    /\ ApiInit
    /\ weights_rows = <<>>
    /\ stage = "start"
    /\ snapshot = [holders |-> {}, sensitivity |-> "Public"]
    /\ lob_filter = NoFilter
    /\ result = NoResult
    /\ scorer_config = DefaultAssuranceConfig
    /\ score_args = [resource_sensitivity |-> "Internal", total_peers |-> 0,
                     peers_with |-> 0,
                     usage |-> [total_access_count |-> 0, last_accessed_days_ago |-> None,
                                access_count_30d |-> 2]]
    /\ score = NoScore
    /\ clusterer_config = [consensus_threshold |-> 7]
    /\ library_outcome = [kmeans |-> Failed, hierarchical |-> Failed,
                          dbscan |-> Failed, graph_community |-> Failed]
    /\ all_assignments = <<>>
    /\ consensus_results = <<>>
    /\ ProximityIdle
    /\ ReplayIdle
    /\ SharedIdle
NextCampaign ==
    \/ CreateCampaign /\ UNCHANGED <<scorerVars, clusterVars, engineVars, proximityVars, replayVars, sharedVars, weights_rows>>
    \/ UpdateCampaign /\ UNCHANGED <<scorerVars, clusterVars, engineVars, proximityVars, replayVars, sharedVars, weights_rows>>
    \/ ArchiveCampaign /\ UNCHANGED <<scorerVars, clusterVars, engineVars, proximityVars, replayVars, sharedVars, weights_rows>>
    \/ ActivateCampaign /\ UNCHANGED <<scorerVars, clusterVars, engineVars, proximityVars, replayVars, sharedVars, weights_rows>>
SpecCampaign == InitCampaign /\ [][NextCampaign]_vars

\* decisions of reviewers on the items of two activated campaigns
InitDecisions ==
    /\ DecisionsInit
    /\ weights_rows = <<>>
    /\ stage = "start"
    /\ snapshot = [holders |-> {}, sensitivity |-> "Public"]
    /\ lob_filter = NoFilter
    /\ result = NoResult
    /\ scorer_config = DefaultAssuranceConfig
    /\ score_args = [resource_sensitivity |-> "Internal", total_peers |-> 0,
                     peers_with |-> 0,
                     usage |-> [total_access_count |-> 0, last_accessed_days_ago |-> None,
                                access_count_30d |-> 2]]
    /\ score = NoScore
    /\ clusterer_config = [consensus_threshold |-> 7]
    /\ library_outcome = [kmeans |-> Failed, hierarchical |-> Failed,
                          dbscan |-> Failed, graph_community |-> Failed]
    /\ all_assignments = <<>>
    /\ consensus_results = <<>>
    /\ ProximityIdle
    /\ ReplayIdle
    /\ SharedIdle
NextDecisions ==
    \/ SubmitDecision /\ UNCHANGED <<scorerVars, clusterVars, engineVars, proximityVars, replayVars, sharedVars, weights_rows>>
    \/ SubmitBulkDecisions /\ UNCHANGED <<scorerVars, clusterVars, engineVars, proximityVars, replayVars, sharedVars, weights_rows>>
SpecDecisions == InitDecisions /\ [][NextDecisions]_vars

\* requests to the weights endpoints
InitWeights ==
    /\ WeightsInit
    /\ analysis = [grants |-> <<>>]
    /\ campaigns = <<>>
    /\ review_items = <<>>
    /\ audit_records = <<>>
    /\ stage = "start"
    /\ snapshot = [holders |-> {}, sensitivity |-> "Public"]
    /\ lob_filter = NoFilter
    /\ result = NoResult
    /\ scorer_config = DefaultAssuranceConfig
    /\ score_args = [resource_sensitivity |-> "Internal", total_peers |-> 0,
                     peers_with |-> 0,
                     usage |-> [total_access_count |-> 0, last_accessed_days_ago |-> None,
                                access_count_30d |-> 2]]
    /\ score = NoScore
    /\ clusterer_config = [consensus_threshold |-> 7]
    /\ library_outcome = [kmeans |-> Failed, hierarchical |-> Failed,
                          dbscan |-> Failed, graph_community |-> Failed]
    /\ all_assignments = <<>>
    /\ consensus_results = <<>>
    /\ ProximityIdle
    /\ ReplayIdle
    /\ SharedIdle
NextWeights ==
    \/ UpdateWeights /\ UNCHANGED <<scorerVars, clusterVars, engineVars, proximityVars, replayVars, sharedVars>>
    \/ GetWeights /\ UNCHANGED <<scorerVars, clusterVars, engineVars, proximityVars, replayVars, sharedVars>>
SpecWeights == InitWeights /\ [][NextWeights]_vars

-----------------------------------------------------------------------------
(* Claims about the assurance scorer (SpecScore)                           *)

Scored == score # NoScore

\* The ceiling the documentation gives each sensitivity level, in hundredths
DocumentedCeiling(level) ==
    CASE level = "Public" -> 100
      [] level = "Internal" -> 85
      [] level = "Confidential" -> 50
      [] level = "Critical" -> 0

\* raw * ceiling * 100 of the scored call as a quotient num/den, from the
\* arguments of the call and the components the score reports
ProductNum ==
    LET tnum == IF score_args.total_peers = 0 THEN 1 ELSE score_args.peers_with
        tden == IF score_args.total_peers = 0 THEN 2 ELSE score_args.total_peers
    IN  score.sensitivity_ceiling
          * (10 * scorer_config.weight_typicality * tnum
             + scorer_config.weight_usage * score.usage_factor * tden)
ProductDen ==
    100 * (IF score_args.total_peers = 0 THEN 2 ELSE score_args.total_peers)

\* C1: a grant on a Critical resource is never auto-certify eligible and its
\* overall score is 0, whatever the peers, the usage and the thresholds are.
C1_CriticalNeverEligible ==
    (Scored /\ score.resource_sensitivity = "Critical")
        => (~score.auto_certify_eligible /\ score.overall_score = 0)

\* a Critical grant all of whose peers hold the resource, in active use, scored
\* by a scorer whose high threshold it reaches
C1_Witness ==
    /\ Scored
    /\ score.resource_sensitivity = "Critical"
    /\ score.total_peers > 0
    /\ score.peers_with_access = score.total_peers
    /\ score.usage_pattern = "active"
    /\ score.classification = "high_assurance"

\* C2: every score is within 0..100 and at most 100 times the ceiling of its
\* sensitivity (overall_score is in tenths of a point).
C2_ScoreWithinCeiling ==
    (Scored /\ score.resource_sensitivity \in SensitivityLevels)
        => /\ 0 <= score.overall_score
           /\ score.overall_score <= 1000
           /\ score.overall_score <= 10 * DocumentedCeiling(score.resource_sensitivity)

\* C3 as stated: the classification is the one the reported (rounded)
\* overall_score falls in.
C3_ClassifiedByReportedScore ==
    Scored =>
        LET high == 10 * scorer_config.high_assurance_threshold
            medium == 10 * scorer_config.medium_assurance_threshold
        IN  /\ (score.classification = "high_assurance") <=> (score.overall_score >= high)
            /\ (score.classification = "medium_assurance")
                    <=> (medium <= score.overall_score /\ score.overall_score < high)
            /\ (score.classification = "low_assurance")
                    <=> (score.overall_score < medium /\ score.overall_score < high)

\* C3 amended: the classification is the one the unrounded product
\* raw * ceiling * 100 falls in, and the reported overall_score is that
\* product rounded to one decimal.
C3_ClassifiedByUnroundedScore ==
    Scored =>
        LET high == scorer_config.high_assurance_threshold * ProductDen
            medium == scorer_config.medium_assurance_threshold * ProductDen
            error == 10 * ProductNum - score.overall_score * ProductDen
        IN  /\ (score.classification = "high_assurance") <=> (ProductNum >= high)
            /\ (score.classification = "medium_assurance")
                    <=> (medium <= ProductNum /\ ProductNum < high)
            /\ (score.classification = "low_assurance")
                    <=> (ProductNum < medium /\ ProductNum < high)
            /\ 2 * error <= ProductDen
            /\ -2 * error <= ProductDen

\* a score under the default thresholds whose product lies below the medium
\* threshold and whose reported overall_score has reached it
C3_Witness ==
    /\ Scored
    /\ scorer_config = DefaultAssuranceConfig
    /\ ProductNum < 50 * ProductDen
    /\ score.overall_score = 500
    /\ score.classification = "low_assurance"

\* C4: a score is auto-certify eligible exactly when it is high_assurance and
\* its sensitivity ceiling is above 0.
C4_EligibleIffHighAndCeiling ==
    Scored =>
        (score.auto_certify_eligible
            <=> (score.classification = "high_assurance" /\ score.sensitivity_ceiling > 0))

\* an eligible score, and so a high_assurance one under a positive ceiling
C4_Witness ==
    /\ Scored
    /\ score.auto_certify_eligible
    /\ score.resource_sensitivity = "Internal"
    /\ scorer_config = DefaultAssuranceConfig

-----------------------------------------------------------------------------
(* Claims about the consensus analysis (SpecConsensus)                     *)

Analyzed == stage = "analyzed"

\* the strategies whose assignments hold employee e, as indices of all_assignments
AssignedBy(e) == {i \in 1..Len(all_assignments) : e \in DOMAIN all_assignments[i].assignments}

\* what strategy i says of employee e
VoteOf(i, e) == all_assignments[i].assignments[e]

\* the other employees strategy i puts in the cluster of e; none for an outlier
ClusterMates(i, e) ==
    IF VoteOf(i, e).is_outlier THEN {}
    ELSE {o \in DOMAIN all_assignments[i].assignments :
            o # e /\ VoteOf(i, o).cluster_id = VoteOf(i, e).cluster_id}

\* the unordered pairs of strategies that assigned e
StrategyPairs(e) == {p \in AssignedBy(e) \X AssignedBy(e) : p[1] < p[2]}

\* Jaccard similarity of the peer sets of a pair, 1 for two empty sets
PairSimilarity(p, e) ==
    LET a == ClusterMates(p[1], e)
        b == ClusterMates(p[2], e)
    IN  IF a \cup b = {} THEN Rat(1, 1)
        ELSE Rat(Cardinality(a \cap b), Cardinality(a \cup b))

RECURSIVE SumSimilarity(_, _)
SumSimilarity(pairs, e) ==
    IF pairs = {} THEN Rat(0, 1)
    ELSE LET p == CHOOSE q \in pairs : TRUE
         IN  RatAdd(PairSimilarity(p, e), SumSimilarity(pairs \ {p}, e))

\* the mean of PairSimilarity over all pairs of strategies that assigned e
MeanSimilarity(e) ==
    LET total == SumSimilarity(StrategyPairs(e), e)
    IN  Rat(total.num, total.den * Cardinality(StrategyPairs(e)))

\* C5: with two or more strategies, consensus_score is the mean over all
\* pairs of strategies of the Jaccard similarity of the two peer sets, two
\* empty peer sets counting as 1.0.
C5_ConsensusIsMeanOverAllPairs ==
    Analyzed =>
        \A e \in Employees :
            Cardinality(AssignedBy(e)) >= 2
                => RatEq(consensus_results[e].consensus_score, MeanSimilarity(e))

\* the four conditions of C6 for employee e
LowConsensus(e) ==
    RatLess(consensus_results[e].consensus_score, Rat(clusterer_config.consensus_threshold, 10))
MixedOutlierVotes(e) ==
    /\ \E i \in AssignedBy(e) : VoteOf(i, e).is_outlier
    /\ \E i \in AssignedBy(e) : ~VoteOf(i, e).is_outlier
NoCommonPeer(e) ==
    LET sets == {ClusterMates(i, e) : i \in AssignedBy(e)} \ {{}}
    IN  /\ UNION sets # {}
        /\ ~\E x \in UNION sets : \A s \in sets : x \in s
NoAssignment(e) == AssignedBy(e) = {}

\* C6: needs_human_review is true exactly when the consensus score is below
\* the threshold, or the outlier votes are mixed, or the non-empty peer sets
\* have no common member, or no strategy assigned the employee.
C6_ReviewIffAnyCondition ==
    Analyzed =>
        \A e \in Employees :
            consensus_results[e].needs_human_review
                <=> (LowConsensus(e) \/ MixedOutlierVotes(e) \/ NoCommonPeer(e) \/ NoAssignment(e))

\* an employee sent to review only because its peer sets share no member
C6_Witness ==
    /\ Analyzed
    /\ \E e \in Employees :
        /\ consensus_results[e].needs_human_review
        /\ NoCommonPeer(e)
        /\ ~LowConsensus(e)
        /\ ~MixedOutlierVotes(e)

\* Scenario D for employee e: three strategies assigned e, one marks it an
\* outlier and the peer sets of the other two have Jaccard similarity 0.8
ScenarioD(e) ==
    /\ clusterer_config.consensus_threshold = 7
    /\ Cardinality(AssignedBy(e)) = 3
    /\ \E p \in StrategyPairs(e) :
        /\ ~VoteOf(p[1], e).is_outlier
        /\ ~VoteOf(p[2], e).is_outlier
        /\ RatEq(PairSimilarity(p, e), Rat(4, 5))
        /\ \E i \in AssignedBy(e) \ {p[1], p[2]} : VoteOf(i, e).is_outlier

\* the union of the non-empty peer sets of e
UnionOfPeerSets(e) == UNION {ClusterMates(i, e) : i \in AssignedBy(e)}

\* C7 as stated: in Scenario D the employee needs review, the reason names
\* the outlier disagreement and peer_ids is the union of the two peer sets.
C7_ScenarioD_OutlierReason ==
    Analyzed =>
        \A e \in Employees :
            ScenarioD(e) =>
                /\ consensus_results[e].needs_human_review
                /\ consensus_results[e].disagreement_reason = "Outlier disagreement"
                /\ consensus_results[e].peer_ids = UnionOfPeerSets(e)

\* C7 amended: in Scenario D the employee needs review, the reason names the
\* low consensus score (0.8/3 < 0.7) and peer_ids is the union of the two
\* peer sets.
C7_ScenarioD_LowConsensusReason ==
    Analyzed =>
        \A e \in Employees :
            ScenarioD(e) =>
                /\ consensus_results[e].needs_human_review
                /\ consensus_results[e].disagreement_reason = "Low consensus score"
                /\ RatEq(consensus_results[e].consensus_score, Rat(4, 15))
                /\ consensus_results[e].peer_ids = UnionOfPeerSets(e)

\* Scenario D has been analysed for some employee
C7_Witness == Analyzed /\ \E e \in Employees : ScenarioD(e)

\* C8: peer_ids is the union over the strategies that assigned the employee
\* of its cluster mates (none where it is an outlier), never holds the
\* employee itself, and peer_count is its size.
C8_PeerIdsIsUnion ==
    Analyzed =>
        \A e \in Employees :
            AssignedBy(e) # {} =>
                /\ consensus_results[e].peer_ids = UnionOfPeerSets(e)
                /\ e \notin consensus_results[e].peer_ids
                /\ consensus_results[e].peer_count = Cardinality(consensus_results[e].peer_ids)

\* an employee one strategy marks an outlier and two others give different,
\* non-empty peer sets
C8_Witness ==
    /\ Analyzed
    /\ \E e \in Employees :
        /\ \E i \in AssignedBy(e) : VoteOf(i, e).is_outlier
        /\ \E p \in StrategyPairs(e) :
            /\ ClusterMates(p[1], e) # {}
            /\ ClusterMates(p[2], e) # {}
            /\ ClusterMates(p[1], e) # ClusterMates(p[2], e)
        /\ consensus_results[e].peer_count > 0

\* the cluster ids the strategies that do not mark e an outlier vote for
NonOutlierVoters(e) == {i \in AssignedBy(e) : ~VoteOf(i, e).is_outlier}
VotesFor(c, e) == Cardinality({i \in NonOutlierVoters(e) : VoteOf(i, e).cluster_id = c})
VotedIds(e) == {VoteOf(i, e).cluster_id : i \in NonOutlierVoters(e)}
MostVotedIds(e) == {c \in VotedIds(e) : \A d \in VotedIds(e) : VotesFor(d, e) <= VotesFor(c, e)}

\* C9 as stated: consensus_cluster_id is the most voted non-outlier cluster
\* id, the smallest one on a tie, and -1 when every vote is an outlier vote.
C9_ModeSmallestOnTie ==
    Analyzed =>
        \A e \in Employees :
            AssignedBy(e) # {} =>
                IF NonOutlierVoters(e) = {}
                THEN consensus_results[e].consensus_cluster_id = -1
                ELSE /\ consensus_results[e].consensus_cluster_id \in MostVotedIds(e)
                     /\ \A c \in MostVotedIds(e) : consensus_results[e].consensus_cluster_id <= c

\* the first strategy, in the order the strategies ran, to vote for cluster id c
FirstVoter(c, e) ==
    CHOOSE i \in NonOutlierVoters(e) :
        /\ VoteOf(i, e).cluster_id = c
        /\ \A j \in NonOutlierVoters(e) : VoteOf(j, e).cluster_id = c => i <= j

\* C9 amended: consensus_cluster_id is the most voted non-outlier cluster id,
\* on a tie the one voted for by the earliest strategy in run order, and -1
\* when every vote is an outlier vote.
C9_ModeFirstVotedOnTie ==
    Analyzed =>
        \A e \in Employees :
            AssignedBy(e) # {} =>
                IF NonOutlierVoters(e) = {}
                THEN consensus_results[e].consensus_cluster_id = -1
                ELSE /\ consensus_results[e].consensus_cluster_id \in MostVotedIds(e)
                     /\ \A c \in MostVotedIds(e) :
                            FirstVoter(consensus_results[e].consensus_cluster_id, e)
                                <= FirstVoter(c, e)

\* a tie between two cluster ids of which the larger was voted first
C9_Witness ==
    /\ Analyzed
    /\ \E e \in Employees :
        /\ Cardinality(MostVotedIds(e)) >= 2
        /\ \E c \in MostVotedIds(e) : c < consensus_results[e].consensus_cluster_id

\* C10: with exactly one strategy having assigned the employee, its
\* consensus_score is 1.0.
C10_SingleStrategyFullConsensus ==
    Analyzed =>
        \A e \in Employees :
            Cardinality(AssignedBy(e)) = 1
                => RatEq(consensus_results[e].consensus_score, Rat(1, 1))

\* a run in which a single strategy assigned the employees, marks one an
\* outlier and gives another a peer
C10_Witness ==
    /\ Analyzed
    /\ \E e \in Employees :
        /\ Cardinality(AssignedBy(e)) = 1
        /\ \E i \in AssignedBy(e) : VoteOf(i, e).is_outlier
    /\ \E e \in Employees :
        /\ Cardinality(AssignedBy(e)) = 1
        /\ \E i \in AssignedBy(e) : ClusterMates(i, e) # {}

-----------------------------------------------------------------------------
(* Claims about run_analysis (SpecRunAnalysis)                             *)

\* no strategy of the run produced an assignment for employee e: each one
\* raised, or returned a dict without e
Unassigned(e) ==
    \A i \in 1..Len(Strategies) :
        \/ library_outcome[Strategies[i]].raised
        \/ e \notin DOMAIN library_outcome[Strategies[i]].assignments

\* the run analysed a non-empty employee set and has returned
ReturnedFull == stage = "returned" /\ result.total_employees > 0

\* the ConsensusResult of an employee without any assignment
IsNoResultsConsensus(c) ==
    /\ c.needs_human_review
    /\ c.disagreement_reason = "No clustering results available"

\* C11: an employee for whom no strategy produced an assignment still gets a
\* ConsensusResult, with needs_human_review = true and the reason "No
\* clustering results available", and the grants of that employee are scored
\* with an empty peer set.
C11_UnassignedStillScored ==
    /\ Analyzed =>
          \A e \in Employees :
              Unassigned(e) => /\ e \in DOMAIN consensus_results
                               /\ IsNoResultsConsensus(consensus_results[e])
    /\ ReturnedFull =>
          \A e \in Employees :
              Unassigned(e) =>
                  /\ e \in DOMAIN result.consensus_results
                  /\ IsNoResultsConsensus(result.consensus_results[e])
                  /\ e \in snapshot.holders =>
                        /\ e \in DOMAIN result.assurance_scores
                        /\ result.assurance_scores[e].total_peers = 0
                        /\ result.assurance_scores[e].peers_with_access = 0
                        /\ result.assurance_scores[e].explanations[1] = "No peer group"

\* a returned run in which every strategy failed or returned nothing, while
\* the employees hold grants
C11_Witness ==
    /\ ReturnedFull
    /\ \E e \in snapshot.holders : Unassigned(e)
    /\ \E i \in 1..Len(Strategies) : library_outcome[Strategies[i]].raised
    /\ \E i \in 1..Len(Strategies) : ~library_outcome[Strategies[i]].raised


\* the strategies of the run that did not raise, as indices of Strategies
Succeeded == {i \in 1..Len(Strategies) : ~library_outcome[Strategies[i]].raised}

SomeRaised == \E i \in 1..Len(Strategies) : library_outcome[Strategies[i]].raised

\* the succeeded strategies whose returned dict holds employee e
AssignersOf(e) ==
    {i \in Succeeded : e \in DOMAIN library_outcome[Strategies[i]].assignments}

\* the other employees that strategy i returned in the cluster of e
MatesBy(i, e) ==
    LET a == library_outcome[Strategies[i]].assignments
    IN  IF a[e].is_outlier THEN {}
        ELSE {o \in DOMAIN a \ {e} : a[o].cluster_id = a[e].cluster_id}

\* the elements of a set of numbers in increasing order
Ascending(S) ==
    [k \in 1..Cardinality(S) |-> CHOOSE x \in S : Cardinality({y \in S : y < x}) = k - 1]

\* what C12 says of the dict run_all_strategies returned
OnlySucceededRan(assignments_by_strategy) ==
    /\ Len(assignments_by_strategy) = Cardinality(Succeeded)
    /\ \A k \in 1..Len(assignments_by_strategy) :
          /\ assignments_by_strategy[k].strategy = Strategies[Ascending(Succeeded)[k]]
          /\ assignments_by_strategy[k].assignments
                = library_outcome[Strategies[Ascending(Succeeded)[k]]].assignments

\* what C12 says of the ConsensusResult c of employee e
OverSucceededOnly(c, e) ==
    LET order == Ascending(AssignersOf(e))
        mates == [k \in 1..Len(order) |-> MatesBy(order[k], e)]
    IN  /\ c.total_strategies = Cardinality(AssignersOf(e))
        /\ Len(c.assignments) = Cardinality(AssignersOf(e))
        /\ \A k \in 1..Len(order) : c.assignments[k].strategy = Strategies[order[k]]
        /\ c.peer_ids = UNION {mates[k] : k \in 1..Len(order)}
        /\ AssignersOf(e) # {} => c.consensus_score = ConsensusScore(mates)

\* C12: when strategies raise, run_all_strategies still returns and the run
\* goes on to return a result; a strategy that raised contributes no
\* assignments, and every employee's total_strategies, peer sets and
\* consensus score are computed over the strategies that succeeded.
C12_FailedStrategiesOmitted ==
    SomeRaised =>
        /\ stage = "returned" => result.returned
        /\ stage \in {"clustered", "analyzed"} => OnlySucceededRan(all_assignments)
        /\ Analyzed => \A e \in Employees : OverSucceededOnly(consensus_results[e], e)
        /\ ReturnedFull =>
              /\ OnlySucceededRan(result.cluster_assignments)
              /\ \A e \in Employees : OverSucceededOnly(result.consensus_results[e], e)

\* a returned run in which one strategy raised and at least two assigned an
\* employee that has peers
C12_Witness ==
    /\ ReturnedFull
    /\ SomeRaised
    /\ \E e \in Employees :
          /\ Cardinality(AssignersOf(e)) >= 2
          /\ result.consensus_results[e].peer_ids # {}


\* the lob_filter names no LOB, by id or by name, that has a team with an
\* active employee
MatchesNoEmployee ==
    /\ lob_filter # NoFilter
    /\ ~\E k \in 1..Len(Lobs), t \in Teams, e \in Employees :
            /\ Lobs[k].id = lob_filter \/ Lobs[k].name = lob_filter
            /\ t.lob_id = Lobs[k].id
            /\ TeamOf(e) = t.id

\* C17: when the LOB filter matches no employee, run_analysis returns a
\* result with total_employees = 0, total_grants = 0, every count 0 and all
\* maps empty, and runs no stage.
C17_EmptyFilterEmptyResult ==
    (MatchesNoEmployee /\ stage # "called") =>
        /\ stage = "returned"
        /\ result.returned
        /\ result.total_employees = 0
        /\ result.total_grants = 0
        /\ result.high_assurance_count = 0
        /\ result.medium_assurance_count = 0
        /\ result.low_assurance_count = 0
        /\ result.auto_certify_eligible_count = 0
        /\ result.needs_human_review_count = 0
        /\ result.clustering_disagreement_count = 0
        /\ DOMAIN result.employee_features = {}
        /\ DOMAIN result.cluster_assignments = {}
        /\ DOMAIN result.consensus_results = {}
        /\ DOMAIN result.assurance_scores = {}
        /\ all_assignments = <<>>
        /\ consensus_results = <<>>

\* run_analysis has returned for a LOB without active employees, for an
\* unknown LOB name or for an unknown LOB id, on a snapshot that holds grants
C17_Witness ==
    /\ stage = "returned"
    /\ lob_filter \in {"lob_b", "Beta", "Gamma", "lob_x"}
    /\ snapshot.holders # {}
    /\ result.total_grants = 0


-----------------------------------------------------------------------------
(* Claims about the proximity calculator (SpecProximity)                   *)

NonNegative(w) ==
    w.structural >= 0 /\ w.functional >= 0 /\ w.behavioral >= 0 /\ w.temporal >= 0

MatrixDone(r) == run_matrix[r].done

RatLeq(a, b) == a.num * b.den <= b.num * a.den

\* C13: whatever the features dict, the manager chains and the LOB blocking,
\* the matrix a calculator built from non-negative weights returns is
\* symmetric, has 1 on the diagonal and has every entry between 0 and 1.
C13_MatrixSymmetricUnitBounded ==
    \A r \in Runs :
        (MatrixDone(r) /\ NonNegative(WeightsOfRun(prox_input, r))) =>
            \A i, j \in ProxEmployees :
                /\ run_matrix[r].cells[i][j] = run_matrix[r].cells[j][i]
                /\ run_matrix[r].cells[i][i] = Rat(1, 1)
                /\ RatLeq(Rat(0, 1), run_matrix[r].cells[i][j])
                /\ RatLeq(run_matrix[r].cells[i][j], Rat(1, 1))

DifferentLobs(a, b) ==
    /\ a \in DOMAIN prox_input.features
    /\ b \in DOMAIN prox_input.features
    /\ prox_input.features[a].lob_id # prox_input.features[b].lob_id

\* C14: with block_by_lob the entry of every pair of distinct employees whose
\* LOBs differ is 0, and the diagonal is 1.
C14_CrossLobEntriesZero ==
    \A r \in Runs :
        (MatrixDone(r) /\ prox_input.block_by_lob) =>
            \A i, j \in ProxEmployees :
                /\ (i # j /\ DifferentLobs(i, j)) => run_matrix[r].cells[i][j] = Rat(0, 1)
                /\ run_matrix[r].cells[i][i] = Rat(1, 1)

\* a blocked run over two populated employees of different LOBs next to a
\* pair of the same LOB whose entry is not 0
C14_Witness ==
    /\ MatrixDone(1)
    /\ prox_input.block_by_lob
    /\ \E i, j, k \in ProxEmployees :
        /\ i # j /\ DifferentLobs(i, j)
        /\ prox_input.features[i] = FullFeatures
        /\ prox_input.features[j] = OtherLobFeatures
        /\ run_matrix[1].cells[i][j] = Rat(0, 1)
        /\ k # i /\ k \in DOMAIN prox_input.features
        /\ ~DifferentLobs(i, k)
        /\ run_matrix[1].cells[i][k] # Rat(0, 1)

PositiveSum(w) == WeightTotal(w) > 0

BothRunsClustered == run_clusters[1].done /\ run_clusters[2].done

\* C15: for weights w with non-negative entries and positive sum, the run
\* configured with w gives the same matrix and the same cluster assignments
\* as the run configured with w / sum(w).
C15_SameResultAsNormalized ==
    (BothRunsClustered /\ NonNegative(prox_input.weights) /\ PositiveSum(prox_input.weights)) =>
        /\ run_matrix[1].cells = run_matrix[2].cells
        /\ run_clusters[1].hierarchical = run_clusters[2].hierarchical

\* the instance of C15 the spec names: weights (1, 1, 1, 1) against (0.25, 0.25, 0.25, 0.25)
C15_UnitWeightsAgree ==
    (BothRunsClustered /\ prox_input.weights.den = 10000
        /\ \A f \in {"structural", "functional", "behavioral", "temporal"} :
               prox_input.weights[f] = 10000) =>
        /\ calculator[2].weights.den = 4 * calculator[2].weights.structural
        /\ run_matrix[1].cells = run_matrix[2].cells
        /\ run_clusters[1].hierarchical = run_clusters[2].hierarchical

HasNegativeWeight(w) == ~NonNegative(w)

\* C16: a configuration with a negative proximity weight is rejected before
\* any stage runs: no calculator is built from it and no matrix or cluster
\* assignment is ever produced from it.
C16_NegativeWeightRejected ==
    HasNegativeWeight(prox_input.weights) =>
        /\ ~calculator[1].done
        /\ ~run_matrix[1].done
        /\ ~run_clusters[1].done

\* two distinct employees that hold exactly {"r"} and agree on every attribute
IdenticalHoldersOfR(a, b) ==
    /\ a # b
    /\ a \in DOMAIN prox_input.features
    /\ b \in DOMAIN prox_input.features
    /\ prox_input.features[a] = prox_input.features[b]
    /\ prox_input.features[a].access_set = {"r"}
    /\ \A f \in {"manager_id", "team_id", "lob_id", "location_id", "job_code", "job_family",
                 "cost_center_id", "hire_quarter"} : prox_input.features[a][f] # Null
    /\ prox_input.features[a].job_level > 0
    /\ prox_input.features[a].tenure_days > 0
    /\ prox_input.features[a].time_in_role_days > 0

\* C19: in the pipeline's call (default weights, no manager chains passed),
\* the proximity of two employees that both hold exactly {r} and share every
\* attribute is 1.0.
C19_IdenticalEmployeesProximityOne ==
    (MatrixDone(1) /\ prox_input.weights = DefaultWeights /\ ~prox_input.manager_chains) =>
        \A a, b \in ProxEmployees :
            IdenticalHoldersOfR(a, b) => run_matrix[1].cells[a][b] = Rat(1, 1)

-----------------------------------------------------------------------------
(* Claims about calculate_usage_factor (SpecScore)                         *)

\* the documented table: usage factor in tenths and label
DocumentedUsage(usage) ==
    LET days == usage.last_accessed_days_ago
    IN  CASE usage.total_access_count = 0 \/ days = None -> <<1, "dormant">>
          [] OTHER ->
               IF days <= 30
               THEN (IF usage.access_count_30d >= 10 THEN <<10, "active">>
                     ELSE IF usage.access_count_30d >= 3 THEN <<9, "active">>
                     ELSE <<8, "active">>)
               ELSE IF days <= 90 THEN <<6, "occasional">>
               ELSE IF days <= 365 THEN <<3, "stale">>
               ELSE <<1, "dormant">>

\* C20: for every usage pattern the usage factor and label a score carries
\* are those of the documented table.
C20_UsageFactorTable ==
    Scored => <<score.usage_factor, score.usage_pattern>> = DocumentedUsage(score_args.usage)

\* a grant last used exactly 90 days ago is scored occasional with factor 0.6
C20_Witness ==
    /\ Scored
    /\ score_args.usage.total_access_count > 0
    /\ score_args.usage.last_accessed_days_ago = 90
    /\ score.usage_factor = 6
    /\ score.usage_pattern = "occasional"

-----------------------------------------------------------------------------
(* Claims about repeated runs (SpecReplay)                                 *)

BothReturned == replay[1].step = "returned" /\ replay[2].step = "returned"

\* C18: two runs on the same snapshot with the same configuration return
\* identical results (features, cluster assignments, consensus results and
\* peer_ids in the same order), whenever each run starts and in whichever
\* process it runs.
C18_RunsIdentical ==
    BothReturned =>
        /\ replay[1].employee_features = replay[2].employee_features
        /\ replay[1].cluster_assignments = replay[2].cluster_assignments
        /\ replay[1].consensus_results = replay[2].consensus_results

-----------------------------------------------------------------------------
(* Claims about the summary statistics (SpecRunAnalysis)                   *)

RunReturned == stage = "returned" /\ result.returned

\* C27: in every AnalyticsResult the three classification counts add up to
\* the number of assurance scores and to total_grants, and
\* auto_certify_eligible_count is at most high_assurance_count.
C27_CountsAddUp ==
    RunReturned =>
        /\ result.high_assurance_count + result.medium_assurance_count
             + result.low_assurance_count = Cardinality(DOMAIN result.assurance_scores)
        /\ Cardinality(DOMAIN result.assurance_scores) = result.total_grants
        /\ result.auto_certify_eligible_count <= result.high_assurance_count

\* a result with grants in two classes, some of them auto-certify eligible
C27_Witness ==
    /\ RunReturned
    /\ result.total_grants > 0
    /\ result.high_assurance_count > 0
    /\ result.low_assurance_count > 0
    /\ result.auto_certify_eligible_count > 0

-----------------------------------------------------------------------------
(* Claims about the explanations (SpecScore)                               *)

FinalAssessment == score.explanations[Len(score.explanations)]

\* C28: under every configured pair of thresholds the final-assessment
\* explanation agrees with the classification: eligible for
\* auto-certification only for a high_assurance score that is auto-certify
\* eligible, review recommended only for medium_assurance, review required
\* only for low_assurance.
C28_ExplanationMatchesClassification ==
    Scored =>
        /\ FinalAssessment = "High assurance: Eligible for auto-certification"
              => (score.classification = "high_assurance" /\ score.auto_certify_eligible)
        /\ FinalAssessment = "Medium assurance: Review recommended"
              => score.classification = "medium_assurance"
        /\ FinalAssessment = "Low assurance: Review required"
              => score.classification = "low_assurance"

-----------------------------------------------------------------------------
(* Claims about the LOB filter (SpecLobFilter)                             *)

FilterReturned == stage = "returned" /\ result.returned

Analysed == IF result.total_employees = 0 THEN {} ELSE DOMAIN result.employee_features

\* C29: a run with a LOB filter analyses exactly the employees whose LOB, as
\* feature extraction resolves it, is the requested LOB: every analysed
\* employee has that lob_id in its features, and no employee whose resolved
\* LOB is the requested one is left out.
C29_FilterMatchesResolvedLob ==
    (FilterReturned /\ RequestedLobId(lob_filter) # Null) =>
        /\ \A e \in Analysed : result.employee_features[e].lob_id = RequestedLobId(lob_filter)
        /\ \A e \in ProxEmployees :
               ResolveLob(snapshot.team_of[e]) = RequestedLobId(lob_filter) => e \in Analysed

\* the half of C29 that holds: every analysed employee has the requested LOB
C29_AnalysedHaveRequestedLob ==
    (FilterReturned /\ RequestedLobId(lob_filter) # Null) =>
        \A e \in Analysed : result.employee_features[e].lob_id = RequestedLobId(lob_filter)

-----------------------------------------------------------------------------
(* Claims about the shared engine (SpecShared)                             *)

\* C30: run_analysis leaves the snapshot the engine loaded unchanged, so on
\* the shared engine every run returns what a first run on a freshly loaded
\* engine returns for its filter, whatever runs with other filters came
\* before it.
C30_RunsLeaveSnapshotUnchanged ==
    /\ engine.loaded =>
          /\ engine.employees = LoadData(database).employees
          /\ engine.team_of = database.team_of
          /\ engine.access_grants = database.access_grants
    /\ \A i \in 1..Len(run_log) :
          run_log[i].result = RunResult(LoadData(database), run_log[i].lob_filter)

\* a filtered run that analysed some but not all employees, then an
\* unfiltered run
C30_Witness ==
    /\ Len(run_log) >= 2
    /\ run_log[1].lob_filter = "lob_a"
    /\ run_log[1].result.total_employees \in 1..(NumProxEmployees - 1)
    /\ run_log[2].lob_filter = NoFilter
    /\ run_log[2].result.total_employees = NumProxEmployees
    /\ engine.features_cache = run_log[2].result.employee_features

-----------------------------------------------------------------------------
(* Claims about campaigns (SpecCampaign)                                   *)

\* the review items of a campaign
ItemsOf(campaign_id) ==
    {i \in DOMAIN review_items : review_items[i].campaign_id = campaign_id}

\* C21: a campaign is created in status Draft; activating it succeeds only
\* while it is Draft and its analysis has grants, and then creates its review
\* items and sets the status to Active; activating it in any other status, or
\* with no grants, is answered 400 and changes neither the campaigns nor the
\* review items.
C21_ActivateOnlyWhileDraft ==
    [][/\ response'.op = "create" => campaigns'[response'.campaign_id].status = "Draft"
       /\ (response'.op = "activate" /\ response'.campaign_id \in DOMAIN campaigns) =>
             LET c == response'.campaign_id
             IN  IF campaigns[c].status = "Draft" /\ TotalGrants(analysis) > 0
                 THEN /\ response'.status_code = 200
                      /\ campaigns'[c].status = "Active"
                      /\ Len(review_items') = Len(review_items) + TotalGrants(analysis)
                      /\ \A i \in (Len(review_items) + 1)..Len(review_items') :
                            review_items'[i].campaign_id = c
                      /\ SubSeq(review_items', 1, Len(review_items)) = review_items
                 ELSE /\ response'.status_code = 400
                      /\ campaigns' = campaigns
                      /\ review_items' = review_items]_vars

\* an activation refused on a campaign that is Active and has its items, and
\* one refused for want of grants
C21_Witness ==
    /\ response.op = "activate"
    /\ response.status_code = 400
    /\ response.campaign_id \in DOMAIN campaigns
    /\ campaigns[response.campaign_id].status = "Active"
    /\ ItemsOf(response.campaign_id) # {}

\* C24: no review item on a Critical resource is Auto-Approved, whatever the
\* campaign's thresholds; an item is Auto-Approved only if its score is
\* auto-certify eligible and it has no human-review reason.
C24_AutoApprovedOnlyIfEligibleAndUnflagged ==
    \A i \in DOMAIN review_items :
        review_items[i].status = "Auto-Approved" =>
            /\ review_items[i].auto_certify_eligible
            /\ ~review_items[i].human_review_reason
            /\ analysis.grants[review_items[i].access_grant_id].resource_sensitivity # "Critical"

\* a campaign with threshold 90 holding an item on a Critical resource, and
\* an eligible item kept from auto-approval by a human-review reason
C24_Witness ==
    \E i, j \in DOMAIN review_items :
        /\ analysis.grants[review_items[i].access_grant_id].resource_sensitivity = "Critical"
        /\ review_items[i].status = "Needs-Review"
        /\ campaigns[review_items[i].campaign_id].auto_approve_threshold = 90
        /\ review_items[j].auto_certify_eligible
        /\ review_items[j].human_review_reason
        /\ review_items[j].status = "Needs-Review"

\* C25: an activation creates no Auto-Approved review item whose assurance
\* score is below the auto_approve_threshold of its campaign.
C25_AutoApprovedAtOrAboveThreshold ==
    [][\A i \in (Len(review_items) + 1)..Len(review_items') :
          review_items'[i].status = "Auto-Approved" =>
              review_items'[i].assurance_score >=
                  10 * campaigns[review_items'[i].campaign_id].auto_approve_threshold]_vars

\* C26: a campaign holds at most one review item per access grant.
C26_OneItemPerGrant ==
    \A i, j \in DOMAIN review_items :
        (/\ review_items[i].campaign_id = review_items[j].campaign_id
         /\ review_items[i].access_grant_id = review_items[j].access_grant_id) => i = j

-----------------------------------------------------------------------------
(* Claims about decisions (SpecDecisions)                                  *)

\* the audit records a step adds that are about item i
NewAuditsFor(i) ==
    {k \in (Len(audit_records) + 1)..Len(audit_records') :
        audit_records'[k].review_item_id = i}

\* the places at which the bulk request just answered lists item i
ListedAt(i) ==
    IF response'.op = "bulk"
    THEN {n \in DOMAIN response'.review_item_ids : response'.review_item_ids[n] = i}
    ELSE {}

\* the request just answered is a single decision on item i
SingleOn(i) == response'.op = "decision" /\ response'.item_id = i

\* an Auto-Approved item stays as it is whatever is submitted: a single
\* decision on it is answered 400, a bulk decision lists it among its errors,
\* and no audit record is written for it
AutoApprovedUntouched ==
    \A i \in DOMAIN review_items :
        review_items[i].status = "Auto-Approved" =>
            /\ review_items'[i] = review_items[i]
            /\ NewAuditsFor(i) = {}
            /\ SingleOn(i) => response'.status_code = 400
            /\ ListedAt(i) # {} =>
                  \E e \in DOMAIN response'.errors : response'.errors[e].item_id = i

\* C23: an Auto-Approved review item can never be changed by a reviewer
\* (single decision answered 400, bulk decision reports an error, status and
\* decision unchanged, no audit record); every other item a decision is
\* submitted for becomes Decided with exactly one new audit record.
C23_AutoApprovedFixedOthersDecided ==
    [][/\ AutoApprovedUntouched
       /\ \A i \in DOMAIN review_items :
             (review_items[i].status # "Auto-Approved" /\ (SingleOn(i) \/ ListedAt(i) # {})) =>
                 /\ review_items'[i].status = "Decided"
                 /\ Cardinality(NewAuditsFor(i)) = 1]_vars

\* C23 (amended): an Auto-Approved review item can never be changed by a
\* reviewer; every other item a single decision is submitted for becomes
\* Decided with one new audit record, and every other item a bulk decision
\* lists becomes Decided only if it belongs to the campaign of the request,
\* with one new audit record for each time the request lists it, and is
\* otherwise left unchanged without an audit record.
C23_AutoApprovedFixedOwnItemsDecided ==
    [][/\ AutoApprovedUntouched
       /\ \A i \in DOMAIN review_items :
             review_items[i].status # "Auto-Approved" =>
                 /\ SingleOn(i) =>
                       /\ review_items'[i].status = "Decided"
                       /\ Cardinality(NewAuditsFor(i)) = 1
                 /\ (ListedAt(i) # {} /\ review_items[i].campaign_id = response'.campaign_id) =>
                       /\ review_items'[i].status = "Decided"
                       /\ Cardinality(NewAuditsFor(i)) = Cardinality(ListedAt(i))
                 /\ (ListedAt(i) # {} /\ review_items[i].campaign_id # response'.campaign_id) =>
                       /\ review_items'[i] = review_items[i]
                       /\ NewAuditsFor(i) = {}]_vars

\* a bulk decision that decided one item and reported an Auto-Approved one
C23_Witness ==
    /\ response.op = "bulk"
    /\ response.success_count = 1
    /\ \E e \in DOMAIN response.errors :
          /\ response.errors[e].error = "Auto-approved item"
          /\ review_items[response.errors[e].item_id].status = "Auto-Approved"
          /\ review_items[response.errors[e].item_id].decision = Null
    /\ \E i \in DOMAIN review_items : review_items[i].status = "Decided"
    /\ Len(audit_records) = 1

-----------------------------------------------------------------------------
(* Claims about the weights (SpecWeights)                                  *)

\* C22: a PUT whose four weights do not sum to 1.0 within 0.01 is answered
\* 400 and stores nothing, so whatever updates came before, GET returns
\* weights whose sum is within 0.01 of 1.
C22_StoredWeightsSumToOne ==
    [][/\ response'.op = "put" =>
             /\ Distance(WeightsTotal(response'.request), 200) > 2 => response'.status_code = 400
             /\ response'.status_code = 400 => weights_rows' = weights_rows
       /\ response'.op = "get" => Distance(WeightsTotal(response'.weights), 200) <= 2]_vars

\* a GET after two stored rows that returns the last of them, an update
\* whose weights sum to 0.99
C22_Witness ==
    /\ response.op = "get"
    /\ Len(weights_rows) >= 2
    /\ response.weights = weights_rows[Len(weights_rows)].weights
    /\ response.updated_by = "admin"
    /\ WeightsTotal(response.weights) = 198

=============================================================================
